---- MODULE Spec2Model ----
(***************************************************************************)
(* A model of the text-to-audiobook core of bilbot-baggins: the sentence   *)
(* segmenter and chunker (textproc/chunking.py), the coalescing post-pass  *)
(* and the generation run (app.py), the cached synthesis job               *)
(* (textproc/tts.py) and the cleaning router (textproc/cleaners.py).       *)
(*                                                                         *)
(* A Python str is a sequence of one-character strings.  Every pure        *)
(* function of the source is an operator computed the way the source       *)
(* computes it; every regular expression is matched by hand, left to       *)
(* right, non-overlapping, as re.sub / re.split do.                        *)
(***************************************************************************)
EXTENDS Integers, Sequences, FiniteSets, TLC

VARIABLES
    pc,          \* position of the operation that is running
    text,        \* chunking: the text argument
    max_length,  \* chunking: the max_length argument
    chunks,      \* chunking: the list returned by smart_split_into_chunks
    sentences,   \* chunking: the list returned by split_into_sentences
    co_chunks,   \* coalescing: the chunks argument
    target,      \* coalescing: the target argument
    hard_cap,    \* coalescing: the hard_cap argument
    co_out,      \* coalescing: the list returned by coalesce_chunks
    job1, job2,  \* cache key: two synthesis jobs (text, cfg, chunk_idx)
    key1, key2,  \* cache key: the file names synth_chunk derives for them
    fs,          \* synth_chunk: size of the file at each path, Absent if none
    calls,       \* synth_chunk: invocations of the speech capability so far
    sy,          \* synth_chunk: the arguments of the current / last call
    attempt,     \* synth_chunk: the local variable attempt
    delay,       \* synth_chunk: the local variable delay, in 1/10000 s
    writes,      \* synth_chunk: audio blocks written in the current attempt
    ret,         \* synth_chunk: what the last call returned
    watched,     \* synth_chunk: the arguments of one call that returned a path
    rewatched,   \* synth_chunk: a later call repeated the watched arguments
    g_chunks,    \* generation run: st.session_state.chunks
    env,         \* generation run: "faulty" or "calm" (nothing fails, memory is low)
    chunk_i,     \* generation run: i, the loop index over the chunks (from 1)
    g_parts,     \* generation run: parts, the sub-parts of chunk i
    part_j,      \* generation run: j, the loop index over the sub-parts (from 1)
    g_attempt,   \* generation run: attempt of synthesize_with_retry
    tmp_files,   \* generation run: the content of each file in the temp directory
    part_paths,  \* generation run: the produced list
    skipped,     \* generation run: the skipped list
    mp3_bytes,   \* generation run: st.session_state.mp3_bytes
    invoked,     \* generation run: capability invocations made for each sub-part
    ok_parts,    \* generation run: sub-parts for which synthesize_with_retry was True
    skipped_at,  \* generation run: the sub-part behind each entry of skipped
    audio_chunks, \* generation run: the buffer of the merge loop
    merge_k,     \* generation run: how many of part_paths the merge loop has read
    raw_text,    \* cleaning: the text argument / the decoded upload
    kind,        \* cleaning: "txt" or "pdf"
    remove_headers,   \* cleaning: option of clean_document
    allow_fallback,   \* cleaning: option of clean_document
    doc_out,     \* cleaning: the string returned by clean_document
    cleaned_text, \* cleaning: cleaned_text of process_file_unified
    header_passes, \* cleaning: the header-removal passes that were executed
    pdf_valid,   \* extraction: the uploaded bytes start with %PDF
    pdf_size,    \* extraction: len(file_bytes)
    plumber_run, \* extraction: what pdfplumber does on these bytes
    pypdf_run,   \* extraction: what pypdf does on these bytes
    reader,      \* extraction: the module whose TextProcessor.read_pdf_file runs
    fallback_on_error, \* extraction: argument of textproc's read_pdf_file
    extracted_text,    \* extraction: the string read_pdf_file returned
    chosen,      \* extraction: the backends whose text is in that string
    pfu_out,     \* extraction: what process_file_unified did with that string
    r_tries,     \* synthesize_with_retry: the tries argument
    r_delay,     \* synthesize_with_retry: the delay argument, in 1/10 s
    r_attempt,   \* synthesize_with_retry: the loop variable attempt
    r_calls,     \* synthesize_with_retry: invocations of the capability so far
    waits,       \* synthesize_with_retry: the time.sleep arguments, in 1/10 s
    r_ret,       \* synthesize_with_retry: the value returned
    fn_arg,      \* a pure function called on its own: its text argument
    fn_out       \* a pure function called on its own: the value returned

chunkVars == <<text, max_length, chunks, sentences>>
coalesceVars == <<co_chunks, target, hard_cap, co_out>>
keyVars == <<job1, job2, key1, key2>>
synthVars == <<fs, calls, sy, attempt, delay, writes, ret, watched, rewatched>>
genVars == <<g_chunks, env, chunk_i, g_parts, part_j, g_attempt, tmp_files, part_paths, skipped,
            mp3_bytes, invoked, ok_parts, skipped_at, audio_chunks, merge_k>>
cleanVars == <<raw_text, kind, remove_headers, allow_fallback, doc_out, cleaned_text,
              header_passes>>
extractVars == <<pdf_valid, pdf_size, plumber_run, pypdf_run, reader, fallback_on_error,
                extracted_text, chosen, pfu_out>>
retryVars == <<r_tries, r_delay, r_attempt, r_calls, waits, r_ret>>
pureVars == <<fn_arg, fn_out>>
vars == <<pc, chunkVars, coalesceVars, keyVars, synthVars, genVars, cleanVars, extractVars,
          retryVars, pureVars>>

-----------------------------------------------------------------------------
(* Characters and the classes the regular expressions use.                 *)

Upper == {"A","B","C","D","E","F","G","H","I","J","K","L","M",
          "N","O","P","Q","R","S","T","U","V","W","X","Y","Z"}
Lower == {"a","b","c","d","e","f","g","h","i","j","k","l","m",
          "n","o","p","q","r","s","t","u","v","w","x","y","z"}
Digit == {"0","1","2","3","4","5","6","7","8","9"}
Letter == Upper \cup Lower
\* \w of Python's re on str, restricted to ASCII
WordCh == Letter \cup Digit \cup {"_"}
\* \s of Python's re, and the characters str.strip() / str.split() treat as space
Space == {" ", "\t", "\n", "\r", "\f"}

UpperSeq == <<"A","B","C","D","E","F","G","H","I","J","K","L","M",
              "N","O","P","Q","R","S","T","U","V","W","X","Y","Z">>
LowerSeq == <<"a","b","c","d","e","f","g","h","i","j","k","l","m",
              "n","o","p","q","r","s","t","u","v","w","x","y","z">>

\* the case folding of re.IGNORECASE
ToLower(c) ==
    IF c \in Upper
    THEN LowerSeq[CHOOSE k \in 1..26 : UpperSeq[k] = c]
    ELSE c

LowerStr(s) == [k \in 1..Len(s) |-> ToLower(s[k])]

\* \b just before position i of s (i in 1..Len(s)+1)
WordBoundary(s, i) ==
    LET before == i > 1 /\ s[i-1] \in WordCh
        after  == i <= Len(s) /\ s[i] \in WordCh
    IN  before # after

\* s[i..] starts with t
StartsWithAt(s, i, t) ==
    /\ i + Len(t) - 1 <= Len(s)
    /\ SubSeq(s, i, i + Len(t) - 1) = t

\* index of the first non-space character at or after i (Len(s)+1 if none): \s*
RECURSIVE SkipSpace(_, _)
SkipSpace(s, i) ==
    IF i <= Len(s) /\ s[i] \in Space THEN SkipSpace(s, i + 1) ELSE i

\* str.strip()
RECURSIVE RStrip(_)
RStrip(s) ==
    IF Len(s) > 0 /\ s[Len(s)] \in Space THEN RStrip(SubSeq(s, 1, Len(s) - 1)) ELSE s

Strip(s) == RStrip(SubSeq(s, SkipSpace(s, 1), Len(s)))

\* the string with every whitespace character removed
RECURSIVE NoSpace(_)
NoSpace(s) ==
    IF s = <<>> THEN <<>>
    ELSE IF s[1] \in Space THEN NoSpace(Tail(s))
    ELSE <<s[1]>> \o NoSpace(Tail(s))

\* end (exclusive) of the run of non-space characters starting at i
RECURSIVE SkipWord(_, _)
SkipWord(s, i) ==
    IF i <= Len(s) /\ s[i] \notin Space THEN SkipWord(s, i + 1) ELSE i

\* str.split(): the maximal runs of non-space characters, in order
RECURSIVE SplitWordsFrom(_, _)
SplitWordsFrom(s, i) ==
    LET b == SkipSpace(s, i)
        e == SkipWord(s, b)
    IN  IF b > Len(s) THEN <<>>
        ELSE <<SubSeq(s, b, e - 1)>> \o SplitWordsFrom(s, e)

SplitWords(s) == SplitWordsFrom(s, 1)

\* "".join(list)
RECURSIVE ConcatRange(_, _, _)
ConcatRange(list, lo, hi) ==
    IF lo > hi THEN <<>>
    ELSE IF lo = hi THEN list[lo]
    ELSE ConcatRange(list, lo, (lo + hi) \div 2) \o ConcatRange(list, (lo + hi) \div 2 + 1, hi)
Concat(list) == ConcatRange(list, 1, Len(list))

-----------------------------------------------------------------------------
(* textproc/chunking.py                                                    *)

ABBR_DOT == <<"§", "D", "O", "T", "§">>

ABBR_LIST == <<
    <<"M","r">>, <<"M","r","s">>, <<"M","s">>, <<"D","r">>, <<"P","r","o","f">>,
    <<"S","r">>, <<"J","r">>, <<"S","t">>,
    <<"v","s">>, <<"e","t","c">>, <<"F","i","g">>, <<"N","o">>, <<"V","o","l">>,
    <<"p","p">>, <<"p">>, <<"C","h">>, <<"M","t">>,
    <<"J","a","n">>, <<"F","e","b">>, <<"M","a","r">>, <<"A","p","r">>,
    <<"M","a","y">>, <<"J","u","n">>, <<"J","u","l">>, <<"A","u","g">>,
    <<"S","e","p">>, <<"O","c","t">>, <<"N","o","v">>, <<"D","e","c">>,
    <<"B">>, <<"M">>, <<"P","h">>, <<"E","d">> >>

\* ABBR_SIMPLE_RE = \b(Mr|Mrs|...)\.  with IGNORECASE, tried at position i:
\* the length of group 1, or 0 when there is no match at i.  The alternatives
\* are tried in list order and the first one followed by a period wins.
AbbrSimpleMatch(s, i) ==
    LET ok(k) == /\ i + Len(ABBR_LIST[k]) <= Len(s)
                 /\ LowerStr(SubSeq(s, i, i + Len(ABBR_LIST[k]) - 1)) = LowerStr(ABBR_LIST[k])
                 /\ s[i + Len(ABBR_LIST[k])] = "."
        hits == {k \in 1..Len(ABBR_LIST) : ok(k)}
    IN  IF ~WordBoundary(s, i) \/ hits = {} THEN 0
        ELSE Len(ABBR_LIST[CHOOSE k \in hits : \A j \in hits : k <= j])

\* ABBR_SIMPLE_RE.sub(lambda m: m.group(1) + ABBR_DOT, s), from position i on
RECURSIVE SubAbbrSimple(_, _)
SubAbbrSimple(s, i) ==
    IF i > Len(s) THEN <<>>
    ELSE LET n == AbbrSimpleMatch(s, i) IN
         IF n > 0
         THEN SubSeq(s, i, i + n - 1) \o ABBR_DOT \o SubAbbrSimple(s, i + n + 1)
         ELSE <<s[i]>> \o SubAbbrSimple(s, i + 1)

\* DEGREE_DOTTED_RE = \b([B|M|Ph|Ed])\.\s*([A|D])\.  with IGNORECASE.  The
\* brackets are character classes: group 1 is ONE of B | M P h E d, group 2
\* ONE of A | D.
DegreeFirst == {"b", "|", "m", "p", "h", "e", "d"}
DegreeSecond == {"a", "|", "d"}

\* the index of the closing period of a match starting at i, or 0
DegreeDottedMatch(s, i) ==
    IF /\ i + 1 <= Len(s)
       /\ WordBoundary(s, i)
       /\ ToLower(s[i]) \in DegreeFirst
       /\ s[i + 1] = "."
    THEN LET j == SkipSpace(s, i + 2) IN
         IF j + 1 <= Len(s) /\ ToLower(s[j]) \in DegreeSecond /\ s[j + 1] = "."
         THEN j + 1 ELSE 0
    ELSE 0

RECURSIVE SubDegreeDotted(_, _)
SubDegreeDotted(s, i) ==
    IF i > Len(s) THEN <<>>
    ELSE LET e == DegreeDottedMatch(s, i) IN
         IF e > 0
         THEN <<s[i]>> \o ABBR_DOT \o <<" ">> \o <<s[e - 1]>> \o ABBR_DOT
              \o SubDegreeDotted(s, e + 1)
         ELSE <<s[i]>> \o SubDegreeDotted(s, i + 1)

\* \b([A-Za-z])\.\s+(?=[A-Za-z]\.)  ->  \1 ABBR_DOT " "
\* the index of the first character after the match, or 0
InitialsSpacedMatch(s, i) ==
    IF /\ i + 2 <= Len(s)
       /\ WordBoundary(s, i)
       /\ s[i] \in Letter
       /\ s[i + 1] = "."
       /\ s[i + 2] \in Space
    THEN LET j == SkipSpace(s, i + 2) IN
         IF j + 1 <= Len(s) /\ s[j] \in Letter /\ s[j + 1] = "." THEN j ELSE 0
    ELSE 0

RECURSIVE SubInitialsSpaced(_, _)
SubInitialsSpaced(s, i) ==
    IF i > Len(s) THEN <<>>
    ELSE LET j == InitialsSpacedMatch(s, i) IN
         IF j > 0
         THEN <<s[i]>> \o ABBR_DOT \o <<" ">> \o SubInitialsSpaced(s, j)
         ELSE <<s[i]>> \o SubInitialsSpaced(s, i + 1)

\* \b([A-Za-z])\.(?=\s*[A-Za-z]\b)  ->  \1 ABBR_DOT
InitialsTightMatch(s, i) ==
    /\ i + 1 <= Len(s)
    /\ WordBoundary(s, i)
    /\ s[i] \in Letter
    /\ s[i + 1] = "."
    /\ LET j == SkipSpace(s, i + 2) IN
       /\ j <= Len(s)
       /\ s[j] \in Letter
       /\ WordBoundary(s, j + 1)

RECURSIVE SubInitialsTight(_, _)
SubInitialsTight(s, i) ==
    IF i > Len(s) THEN <<>>
    ELSE IF InitialsTightMatch(s, i)
         THEN <<s[i]>> \o ABBR_DOT \o SubInitialsTight(s, i + 2)
         ELSE <<s[i]>> \o SubInitialsTight(s, i + 1)

\* a variant that leaves the listed abbreviations unprotected
protect_initials_only(s) ==
    SubInitialsTight(
        SubInitialsSpaced(
            SubDegreeDotted(s, 1), 1), 1)

protect_abbreviations(s) ==
    SubInitialsTight(
        SubInitialsSpaced(
            SubDegreeDotted(
                SubAbbrSimple(s, 1), 1), 1), 1)

\* text.replace(ABBR_DOT, ".")
RECURSIVE restore_abbreviations(_)
restore_abbreviations(s) ==
    IF s = <<>> THEN <<>>
    ELSE IF StartsWithAt(s, 1, ABBR_DOT)
         THEN <<".">> \o restore_abbreviations(SubSeq(s, Len(ABBR_DOT) + 1, Len(s)))
         ELSE <<s[1]>> \o restore_abbreviations(Tail(s))

\* SENT_SPLIT_RE = (?<=[.?!])\s+(?=[A-Z"'(\[])
SentEnders == {".", "?", "!"}
SentStarters == Upper \cup {"\"", "'", "(", "["}

\* the index of the first character after a separator starting at i, or 0
SentSplitMatch(s, i) ==
    IF /\ i > 1
       /\ i <= Len(s)
       /\ s[i - 1] \in SentEnders
       /\ s[i] \in Space
    THEN LET j == SkipSpace(s, i) IN
         IF j <= Len(s) /\ s[j] \in SentStarters THEN j ELSE 0
    ELSE 0

\* SENT_SPLIT_RE.split(s): the pieces between the separators; `from` is where
\* the current piece starts and i the position being scanned
RECURSIVE SentSplit(_, _, _)
SentSplit(s, from, i) ==
    IF i > Len(s) THEN <<SubSeq(s, from, Len(s))>>
    ELSE LET j == SentSplitMatch(s, i) IN
         IF j > 0
         THEN <<SubSeq(s, from, i - 1)>> \o SentSplit(s, j, j)
         ELSE SentSplit(s, from, i + 1)

\* [restore(p).strip() for p in parts if p and p.strip()]
RECURSIVE RestoreParts(_)
RestoreParts(parts) ==
    IF parts = <<>> THEN <<>>
    ELSE IF Strip(Head(parts)) = <<>>
         THEN RestoreParts(Tail(parts))
         ELSE <<Strip(restore_abbreviations(Head(parts)))>> \o RestoreParts(Tail(parts))

split_into_sentences(t) ==
    LET stripped == Strip(t) IN
    IF stripped = <<>> THEN <<>>
    ELSE RestoreParts(SentSplit(protect_abbreviations(stripped), 1, 1))

\* a variant of the fit test that forgets the separator
FitsNoSeparator(cur, s, maxlen) == Len(cur) + Len(s) <= maxlen

\* a variant of the fit test that counts the separator twice
FitsTwoSeparators(cur, s, maxlen) == Len(cur) + Len(s) + (IF cur # <<>> THEN 2 ELSE 0) <= maxlen

\* len(cur) + len(s) + (1 if cur else 0) <= max_length  (lines 75 and 85)
Fits(cur, s, maxlen) == Len(cur) + Len(s) + (IF cur # <<>> THEN 1 ELSE 0) <= maxlen

\* the soft wrap of one over-long sentence (chunking.py lines 82-90): the
\* state of the inner loop is (chunks so far, cur2); the result is both
RECURSIVE WrapWords(_, _, _, _)
WrapWords(words, acc, cur2, maxlen) ==
    IF words = <<>> THEN [chunks |-> acc, cur |-> cur2]
    ELSE LET w == Head(words) IN
         IF Fits(cur2, w, maxlen)
         THEN WrapWords(Tail(words), acc,
                        IF cur2 # <<>> THEN cur2 \o <<" ">> \o w ELSE w, maxlen)
         ELSE WrapWords(Tail(words), Append(acc, cur2), w, maxlen)

\* the loop over the sentences (chunking.py lines 72-92)
RECURSIVE PackSentences(_, _, _, _)
PackSentences(sents, acc, cur, maxlen) ==
    IF sents = <<>> THEN [chunks |-> acc, cur |-> cur]
    ELSE LET s == Head(sents) IN
         IF s = <<>> THEN PackSentences(Tail(sents), acc, cur, maxlen)
         ELSE IF Fits(cur, s, maxlen)
         THEN PackSentences(Tail(sents), acc,
                            IF cur # <<>> THEN cur \o <<" ">> \o s ELSE s, maxlen)
         ELSE LET flushed == IF cur # <<>> THEN Append(acc, cur) ELSE acc IN
              IF Len(s) > maxlen
              THEN LET w == WrapWords(SplitWords(s), flushed, <<>>, maxlen) IN
                   PackSentences(Tail(sents), w.chunks, w.cur, maxlen)
              ELSE PackSentences(Tail(sents), flushed, s, maxlen)

smart_split_into_chunks(t, maxlen) ==
    LET r == PackSentences(split_into_sentences(t), <<>>, <<>>, maxlen) IN
    IF r.cur # <<>> THEN Append(r.chunks, r.cur) ELSE r.chunks

-----------------------------------------------------------------------------
(* The chunking specification: the inputs are drawn in Init and the one    *)
(* action applies smart_split_into_chunks to them.                         *)

MaxTokens == 4
MaxLength == 6

ChunkTokens == {
    <<"D">>, <<"c">>, <<".">>, <<" ">>, <<"w", "x", "y", "z">>, ABBR_DOT }

RECURSIVE TextsOfTokens(_)
TextsOfTokens(n) ==
    IF n = 0 THEN {<<>>}
    ELSE LET shorter == TextsOfTokens(n - 1) IN
         shorter \cup {t \o k : t \in shorter, k \in ChunkTokens}

ChunkTexts == TextsOfTokens(MaxTokens)

NotRun == <<"not run">>

\* st.session_state.mp3_bytes: None, or the bytes of the last finished run
None == [set |-> FALSE, bytes |-> <<>>]
Stored(b) == [set |-> TRUE, bytes |-> b]

\* the variables of an operation that is not part of the specification at hand
ChunkIdle == text = <<>> /\ max_length = 0 /\ chunks = NotRun /\ sentences = NotRun
CoalesceIdle == co_chunks = <<>> /\ target = 0 /\ hard_cap = 0 /\ co_out = NotRun
KeyIdle == job1 = NotRun /\ job2 = NotRun /\ key1 = NotRun /\ key2 = NotRun
SynthIdle ==
    /\ fs = NotRun /\ calls = 0 /\ sy = NotRun /\ attempt = 0 /\ delay = 0
    /\ writes = 0 /\ ret = NotRun /\ watched = NotRun /\ rewatched = FALSE
GenIdle ==
    /\ g_chunks = <<>> /\ env = "calm" /\ chunk_i = 0 /\ g_parts = <<>> /\ part_j = 0
    /\ g_attempt = 0 /\ tmp_files = <<>> /\ part_paths = <<>> /\ skipped = <<>>
    /\ mp3_bytes = None /\ invoked = <<>> /\ ok_parts = {} /\ skipped_at = <<>>
    /\ audio_chunks = <<>> /\ merge_k = 0

CleanIdle ==
    /\ raw_text = <<>> /\ kind = "txt" /\ remove_headers = TRUE /\ allow_fallback = TRUE
    /\ header_passes = {}
    /\ doc_out = NotRun /\ cleaned_text = NotRun
ExtractIdle ==
    /\ pdf_valid = FALSE /\ pdf_size = 0
    /\ plumber_run = [pages |-> <<>>, raised |-> FALSE, text |-> <<>>]
    /\ pypdf_run = [pages |-> <<>>, raised |-> FALSE, text |-> <<>>]
    /\ reader = "none" /\ fallback_on_error = TRUE
    /\ extracted_text = NotRun /\ chosen = {} /\ pfu_out = "not run"
RetryIdle ==
    /\ r_tries = 0 /\ r_delay = 0 /\ r_attempt = 0 /\ r_calls = 0
    /\ waits = <<>> /\ r_ret = "not run"
PureIdle == fn_arg = <<>> /\ fn_out = NotRun

\* a text of two sentences of 14 and 20 characters
OneTwoThree ==
    <<"O","n","e"," ","t","w","o"," ","t","h","r","e","e",".">>
FourFiveSixSeven ==
    <<"F","o","u","r"," ","f","i","v","e"," ","s","i","x"," ","s","e","v","e","n",".">>
OneToSeven == OneTwoThree \o <<" ">> \o FourFiveSixSeven

InitChunk ==
    /\ pc = "chunk_start"
    /\ \/ text \in ChunkTexts /\ max_length \in 1..MaxLength
       \/ text = OneToSeven /\ max_length = 20
    /\ chunks = NotRun
    /\ sentences = NotRun
    /\ CoalesceIdle /\ KeyIdle /\ SynthIdle /\ GenIdle /\ CleanIdle /\ ExtractIdle /\ RetryIdle /\ PureIdle

SmartSplit ==
    /\ pc = "chunk_start"
    /\ chunks' = smart_split_into_chunks(text, max_length)
    /\ pc' = "chunk_done"
    /\ UNCHANGED <<text, max_length, sentences, coalesceVars, keyVars, synthVars, genVars,
                   cleanVars, extractVars, retryVars, pureVars>>

NextChunk == SmartSplit

SpecChunk == InitChunk /\ [][NextChunk]_vars

\* the words of a list of strings, in order
RECURSIVE WordsOf(_)
WordsOf(list) ==
    IF list = <<>> THEN <<>> ELSE SplitWords(Head(list)) \o WordsOf(Tail(list))

HasSpace(s) == \E k \in 1..Len(s) : s[k] \in Space

Normalized(t) ==
    /\ \A k \in 1..Len(t) : t[k] \in Space => t[k] = " "
    /\ \A k \in 1..Len(t) - 1 : ~(t[k] = " " /\ t[k + 1] = " ")
    /\ t # <<>> => (t[1] # " " /\ t[Len(t)] # " ")

\* C2: for a normalized text the chunks, concatenated in order, are the text
\* once the whitespace is removed from both: nothing is dropped, duplicated,
\* altered or reordered.
C2_ChunksReproduceText ==
    (pc = "chunk_done" /\ Normalized(text)) =>
        NoSpace(Concat(chunks)) = NoSpace(text)

-----------------------------------------------------------------------------
(* app.py, coalesce_chunks                                                 *)

\* a variant that joins the buffer last chunk first
RECURSIVE JoinReversed(_)
JoinReversed(buf) ==
    IF buf = <<>> THEN <<>>
    ELSE IF Len(buf) = 1 THEN Head(buf)
    ELSE JoinReversed(Tail(buf)) \o <<"\n", "\n">> \o Head(buf)

\* "\n\n".join(buf)
RECURSIVE JoinParagraphs(_)
JoinParagraphs(buf) ==
    IF buf = <<>> THEN <<>>
    ELSE IF Len(buf) = 1 THEN Head(buf)
    ELSE Head(buf) \o <<"\n", "\n">> \o JoinParagraphs(Tail(buf))

\* size + 1 + L <= hard_cap and (size + 1 + L <= target or size < target * 0.75)
MayMerge(size, L, tgt, cap) ==
    /\ size + 1 + L <= cap
    /\ (size + 1 + L <= tgt \/ 4 * size < 3 * tgt)

\* the loop of coalesce_chunks (lines 315-327) and the final flush (328-329)
RECURSIVE CoalesceLoop(_, _, _, _, _, _)
CoalesceLoop(chs, out, buf, size, tgt, cap) ==
    IF chs = <<>>
    THEN IF buf # <<>> THEN Append(out, JoinParagraphs(buf)) ELSE out
    ELSE LET ch == Head(chs)
             L == Len(ch)
         IN  IF buf = <<>>
             THEN CoalesceLoop(Tail(chs), out, <<ch>>, L, tgt, cap)
             ELSE IF MayMerge(size, L, tgt, cap)
             THEN CoalesceLoop(Tail(chs), out, Append(buf, ch), size + 1 + L, tgt, cap)
             ELSE CoalesceLoop(Tail(chs), Append(out, JoinParagraphs(buf)), <<ch>>, L, tgt, cap)

coalesce_chunks(chs, tgt, cap) == CoalesceLoop(chs, <<>>, <<>>, 0, tgt, cap)

MaxCoalesce == 4
MaxTarget == 4
MaxHardCap == 6

CoalescePool == {<<"a">>, <<"b", "b">>, <<"c", "c", "c">>}

RECURSIVE ListsOf(_, _)
ListsOf(pool, n) ==
    IF n = 0 THEN {<<>>}
    ELSE LET shorter == ListsOf(pool, n - 1) IN
         shorter \cup {Append(l, x) : l \in shorter, x \in pool}

InitCoalesce ==
    /\ pc = "coalesce_start"
    /\ co_chunks \in ListsOf(CoalescePool, MaxCoalesce)
    /\ target \in 1..MaxTarget
    /\ hard_cap \in 1..MaxHardCap
    /\ co_out = NotRun
    /\ ChunkIdle /\ KeyIdle /\ SynthIdle /\ GenIdle /\ CleanIdle /\ ExtractIdle /\ RetryIdle /\ PureIdle

Coalesce ==
    /\ pc = "coalesce_start"
    /\ co_out' = coalesce_chunks(co_chunks, target, hard_cap)
    /\ pc' = "coalesce_done"
    /\ UNCHANGED <<co_chunks, target, hard_cap, chunkVars, keyVars, synthVars, genVars, cleanVars, extractVars, retryVars, pureVars>>

NextCoalesce == Coalesce

SpecCoalesce == InitCoalesce /\ [][NextCoalesce]_vars

\* C3: when no input chunk is longer than hard_cap, every string returned by
\* coalesce_chunks, joiner characters included, is at most hard_cap long.
C3_CoalesceWithinHardCap ==
    (/\ pc = "coalesce_done"
     /\ \A k \in 1..Len(co_chunks) : Len(co_chunks[k]) <= hard_cap)
    => \A k \in 1..Len(co_out) : Len(co_out[k]) <= hard_cap

-----------------------------------------------------------------------------
(* textproc/tts.py                                                         *)

\* the characters of _SANITIZER, [\u0000-\u0008\u000B\u000C\u000E-\u001F\u007F]:
\* the form feed, and "\\x01" and "\\x7f" standing for U+0001 and U+007F
SanitizerChars == {"\f", "\\x01", "\\x7f"}

\* _SANITIZER.sub(" ", text)
ControlsToSpace(s) == [k \in 1..Len(s) |-> IF s[k] \in SanitizerChars THEN " " ELSE s[k]]

\* end (exclusive) of the run of spaces and tabs starting at i
RECURSIVE SkipBlank(_, _)
SkipBlank(s, i) ==
    IF i <= Len(s) /\ s[i] \in {" ", "\t"} THEN SkipBlank(s, i + 1) ELSE i

\* re.sub(r"[ \t]{2,}", " ", txt), from position i on
RECURSIVE CollapseBlanks(_, _)
CollapseBlanks(s, i) ==
    IF i > Len(s) THEN <<>>
    ELSE LET e == SkipBlank(s, i) IN
         IF e - i >= 2 THEN <<" ">> \o CollapseBlanks(s, e)
         ELSE <<s[i]>> \o CollapseBlanks(s, i + 1)

\* txt.replace("&", " and "): the text up to the first "&", the
\* replacement, and the rest treated the same way
RECURSIVE AmpToAnd(_)
AmpToAnd(s) ==
    IF \A k \in 1..Len(s) : s[k] # "&" THEN s
    ELSE LET k == CHOOSE k \in 1..Len(s) : s[k] = "&" /\ \A j \in 1..(k - 1) : s[j] # "&"
         IN  SubSeq(s, 1, k - 1) \o <<" ", "a", "n", "d", " ">>
             \o AmpToAnd(SubSeq(s, k + 1, Len(s)))

sanitize(t) == Strip(AmpToAnd(CollapseBlanks(ControlsToSpace(t), 1)))

\* _slug: the first 16 hex digits of the SHA-256 of s, kept as a digest of s
\* (two different strings of the model never share a digest)
slug(s) == [sha256_16 |-> s]

\* f"{chunk_idx:05d}_{_slug(text)}.mp3" with text = sanitize(text)  (lines 59-60)
mp3_name(t, chunk_idx) == [idx |-> chunk_idx, slug |-> slug(sanitize(t))]

\* out_dir / name
mp3_path(a) == [dir |-> a.out_dir, name |-> mp3_name(a.text, a.chunk_idx)]

Voices == {"en-US-AriaNeural", "en-US-GuyNeural"}
SynthConfigs == {[voice |-> v, rate_pct |-> 0, pitch_hz |-> 0] : v \in Voices}
SynthTexts == {<<"a">>, <<" ", "a">>, <<"a", "&", "\f", "\f", "b">>}
MaxChunkIdx == 2

KeyJobs == [text : SynthTexts, cfg : SynthConfigs \cup {[voice |-> "en-US-AriaNeural", rate_pct |-> 10, pitch_hz |-> -5]},
            chunk_idx : 1..MaxChunkIdx]

InitKey ==
    /\ pc = "key_start"
    /\ job1 \in KeyJobs
    /\ job2 \in KeyJobs
    /\ key1 = NotRun
    /\ key2 = NotRun
    /\ ChunkIdle /\ CoalesceIdle /\ SynthIdle /\ GenIdle /\ CleanIdle /\ ExtractIdle /\ RetryIdle /\ PureIdle

\* the two jobs' file names, each derived as synth_chunk derives it
DeriveKeys ==
    /\ pc = "key_start"
    /\ key1' = mp3_name(job1.text, job1.chunk_idx)
    /\ key2' = mp3_name(job2.text, job2.chunk_idx)
    /\ pc' = "key_done"
    /\ UNCHANGED <<job1, job2, chunkVars, coalesceVars, synthVars, genVars, cleanVars, extractVars, retryVars, pureVars>>

NextKey == DeriveKeys

SpecKey == InitKey /\ [][NextKey]_vars

\* C4 as stated: two jobs with the same sanitized text and the same voice
\* configuration get the same cache key, whatever their chunk_idx.
C4_KeyOfTextAndVoice ==
    (/\ pc = "key_done"
     /\ sanitize(job1.text) = sanitize(job2.text)
     /\ job1.cfg = job2.cfg)
    => key1 = key2

-----------------------------------------------------------------------------
(* textproc/tts.py, synth_chunk: one call at a time (the core is one       *)
(* thread of control).  A call is the cache test, then attempts; each      *)
(* attempt opens the file for writing, streams audio blocks into it and    *)
(* tests the size; the awaits in between are where a call can be abandoned. *)

Absent == -1
MIN_MP3_BYTES == 2000
FIRST_DELAY == 8000
MAX_DELAY == 80000

MaxRetries == 2
MaxCalls == 2
MaxWrites == 2
\* the sizes of the audio blocks the capability may deliver
AudioBlocks == {1, MIN_MP3_BYTES - 1}

SynthJobs == {[text |-> <<"a">>, chunk_idx |-> 1],
              [text |-> <<" ", "a">>, chunk_idx |-> 1],
              [text |-> <<"a">>, chunk_idx |-> MaxChunkIdx]}

SynthArgs == {[text |-> j.text, out_dir |-> "out", cfg |-> c,
               chunk_idx |-> j.chunk_idx, max_retries |-> r] :
              j \in SynthJobs, c \in SynthConfigs, r \in 1..MaxRetries}

SynthPaths == {mp3_path(a) : a \in SynthArgs}

\* no call yet, and the outcomes of a call other than a path
NoArgs == [none |-> TRUE]
NoReturn == [status |-> "none"]
Pending == [status |-> "pending"]
Raised == [status |-> "raised"]
Cancelled == [status |-> "cancelled"]

\* a reuse test with the comparison the wrong way round
ReusableIfEmpty(files, path) == files[path] # Absent /\ files[path] <= 0

\* mp3_path.exists() and mp3_path.stat().st_size > 0  (line 63)
Reusable(files, path) == files[path] # Absent /\ files[path] > 0

InitSynth ==
    /\ pc = "synth_idle"
    /\ fs = [p \in SynthPaths |-> Absent]
    /\ calls = 0
    /\ sy = NoArgs
    /\ attempt = 0
    /\ delay = 0
    /\ writes = 0
    /\ ret = NoReturn
    /\ watched = NoArgs
    /\ rewatched = FALSE
    /\ ChunkIdle /\ CoalesceIdle /\ KeyIdle /\ GenIdle /\ CleanIdle /\ ExtractIdle /\ RetryIdle /\ PureIdle

synthOthers == <<chunkVars, coalesceVars, keyVars, genVars, cleanVars, extractVars, retryVars, pureVars>>

\* a call returns a path: the monitor may start watching its arguments
Watch(a) ==
    \/ watched' = watched
    \/ watched = NoArgs /\ watched' = a

\* lines 58-64 when the file is there: the path is returned at once
SynthReuse(a) ==
    /\ pc = "synth_idle"
    /\ Reusable(fs, mp3_path(a))
    /\ sy' = a
    /\ ret' = mp3_path(a)
    /\ rewatched' = (rewatched \/ a = watched)
    /\ Watch(a)
    /\ UNCHANGED <<pc, fs, calls, attempt, delay, writes, synthOthers>>

\* lines 58-68 when it is not: the retry loop is entered
SynthBegin(a) ==
    /\ pc = "synth_idle"
    /\ ~Reusable(fs, mp3_path(a))
    /\ calls + a.max_retries <= MaxCalls
    /\ sy' = a
    /\ ret' = Pending
    /\ attempt' = 0
    /\ delay' = FIRST_DELAY
    /\ rewatched' = (rewatched \/ a = watched)
    /\ pc' = "synth_attempt"
    /\ UNCHANGED <<fs, calls, writes, watched, synthOthers>>

\* lines 70-80: attempt += 1, the file is opened "wb" (created or truncated)
\* and the capability is invoked
AttemptOpen ==
    /\ pc = "synth_attempt"
    /\ attempt' = attempt + 1
    /\ fs' = [fs EXCEPT ![mp3_path(sy)] = 0]
    /\ calls' = calls + 1
    /\ writes' = 0
    /\ pc' = "synth_stream"
    /\ UNCHANGED <<sy, delay, ret, watched, rewatched, synthOthers>>

\* lines 80-82: one audio block of n bytes arrives and is written
StreamWrite(n) ==
    /\ pc = "synth_stream"
    /\ writes < MaxWrites
    /\ fs' = [fs EXCEPT ![mp3_path(sy)] = @ + n]
    /\ writes' = writes + 1
    /\ UNCHANGED <<pc, calls, sy, attempt, delay, ret, watched, rewatched, synthOthers>>

\* lines 88-94: an attempt failed; the last one raises, the others back off
AttemptFailed ==
    /\ IF attempt >= sy.max_retries
       THEN pc' = "synth_idle" /\ ret' = Raised
       ELSE pc' = "synth_backoff" /\ ret' = ret
    /\ UNCHANGED <<fs, calls, sy, attempt, delay, writes, watched, rewatched, synthOthers>>

\* lines 84-86: the stream ended and the file is big enough
StreamEndOk ==
    /\ pc = "synth_stream"
    /\ fs[mp3_path(sy)] >= MIN_MP3_BYTES
    /\ pc' = "synth_idle"
    /\ ret' = mp3_path(sy)
    /\ Watch(sy)
    /\ UNCHANGED <<fs, calls, sy, attempt, delay, writes, rewatched, synthOthers>>

\* lines 84-85: the stream ended and the file is tiny: RuntimeError
StreamEndTiny ==
    /\ pc = "synth_stream"
    /\ fs[mp3_path(sy)] < MIN_MP3_BYTES
    /\ AttemptFailed

\* the stream raised (a transient error or any other exception)
StreamError ==
    /\ pc = "synth_stream"
    /\ AttemptFailed

\* lines 96-98: the sleep is over, delay = min(delay * 1.8, 8.0)
BackoffDone ==
    /\ pc = "synth_backoff"
    /\ delay' = IF delay * 18 > MAX_DELAY * 10 THEN MAX_DELAY ELSE (delay * 18) \div 10
    /\ pc' = "synth_attempt"
    /\ UNCHANGED <<fs, calls, sy, attempt, writes, ret, watched, rewatched, synthOthers>>

\* the call is abandoned at an await (cancellation): the file stays as it is
Abandon ==
    /\ pc \in {"synth_stream", "synth_backoff"}
    /\ pc' = "synth_idle"
    /\ ret' = Cancelled
    /\ UNCHANGED <<fs, calls, sy, attempt, delay, writes, watched, rewatched, synthOthers>>

NextSynth ==
    \/ \E a \in SynthArgs : SynthReuse(a)
    \/ \E a \in SynthArgs : SynthBegin(a)
    \/ AttemptOpen
    \/ \E n \in AudioBlocks : StreamWrite(n)
    \/ StreamEndOk
    \/ StreamEndTiny
    \/ StreamError
    \/ BackoffDone
    \/ Abandon

SpecSynth == InitSynth /\ [][NextSynth]_vars

\* C5: once synth_chunk has returned a path for some arguments, every later
\* call with the same arguments returns that path at once and does not
\* invoke the speech capability (the call count stays as it was).
C5_RepeatCallReusesFile ==
    [][(pc = "synth_idle" /\ watched # NoArgs /\ sy' = watched)
         => (pc' = "synth_idle" /\ ret' = mp3_path(watched) /\ calls' = calls)]_vars

\* a call that returned a freshly written file was repeated and served
\* from the file
C5_Witness ==
    /\ pc = "synth_idle"
    /\ rewatched
    /\ sy = watched
    /\ ret = mp3_path(sy)
    /\ calls >= 1

\* C6: every path synth_chunk returns, fresh or reused, is a file of at least
\* the minimum size.
C6_ReturnedFileBigEnough ==
    (pc = "synth_idle" /\ ret \in SynthPaths) => fs[ret] >= MIN_MP3_BYTES

\* ---------------------------------------------------------------------
\* The generation run of app.py: every chunk is sanitized, cut into
\* sub-parts of at most SAFE_MAX characters, each sub-part is synthesized
\* with retries, and the produced files are merged into the final audio.
\* ---------------------------------------------------------------------

SAFE_MAX == 1800
TRIES == 3
MEMORY_CHECK_EVERY == 10
MERGE_BATCH == 50

\* text.replace("&", " and ").replace("<", "").replace(">", "")
NotAngle(c) == c \notin {"<", ">"}
sanitize_for_tts(t) == SelectSeq(AmpToAnd(t), NotAngle)

\* [safe_chunk[j : j + SAFE_MAX] for j in range(0, len(safe_chunk), SAFE_MAX)]
RECURSIVE Slices(_, _)
Slices(s, n) ==
    IF Len(s) = 0 THEN <<>>
    ELSE IF Len(s) <= n THEN <<s>>
    ELSE <<SubSeq(s, 1, n)>> \o Slices(SubSeq(s, n + 1, Len(s)), n)

\* a variant that lets a chunk a few characters over the limit through whole
SplitPartsWithSlack(safe_chunk) ==
    IF Len(safe_chunk) > SAFE_MAX + 4 THEN Slices(safe_chunk, SAFE_MAX) ELSE <<safe_chunk>>

\* the sub-parts of a sanitized chunk  (lines 675-681)
SplitParts(safe_chunk) ==
    IF Len(safe_chunk) > SAFE_MAX THEN Slices(safe_chunk, SAFE_MAX) ELSE <<safe_chunk>>

\* not ch.strip()
IsBlank(ch) == Strip(ch) = <<>>

\* part_<i>_<j>.mp3 when the chunk has several sub-parts, part_<i>.mp3
\* otherwise  (lines 670, 685-689)
part_path(chunk_idx, part_idx, nparts) ==
    [chunk |-> chunk_idx, part |-> IF nparts > 1 THEN part_idx ELSE 0]

\* what the speech capability writes for a text: one block standing for
\* the audio of that text; a failed attempt may leave a truncated file
Audio(p) == <<[speech |-> p, complete |-> TRUE]>>
PartialAudio(p) == <<[speech |-> p, complete |-> FALSE]>>

\* the file system of the temporary directory with one file (re)written
WriteFile(files, path, bytes) ==
    [q \in (DOMAIN files) \cup {path} |-> IF q = path THEN bytes ELSE files[q]]

\* a variant of the periodic merge that loses the oldest buffered segment
MergeBatchDropsOldest(buf) ==
    IF Len(buf) >= MERGE_BATCH THEN <<Concat(Tail(buf))>> ELSE buf

\* if len(audio_chunks) >= 50: audio_chunks = [b"".join(audio_chunks)]
MergeBatch(buf) ==
    IF Len(buf) >= MERGE_BATCH THEN <<Concat(buf)>> ELSE buf

\* a variant that fails the run as soon as something was skipped
SomethingSkipped(paths, skips) == skips # <<>>

\* if not part_paths: raise RuntimeError(...)
NothingProduced(paths, skips) == paths = <<>>

\* bounds and inputs of the generation run
MaxGenChunks == 11

ShortTexts == << <<"a">>, <<"b">>, <<"c">> >>
ShortChunk(k) == ShortTexts[(k % 3) + 1]
BlankChunk == <<" ">>
AngleChunk == <<"<", "a", ">", "&">>
\* SAFE_MAX characters ending in "&": over the limit only once sanitized
LongChunk == [k \in 1..SAFE_MAX |-> IF k = SAFE_MAX THEN "&" ELSE "x"]

\* a list that is blank except at its first element and around every
\* position where the loop checks the memory
FaultyChunk(k) ==
    IF k = 1 \/ k % MEMORY_CHECK_EVERY \in {0, 1} THEN ShortChunk(k) ELSE BlankChunk

\* runs in which attempts may fail and the memory may be high
FaultyLists ==
    {[k \in 1..n |-> FaultyChunk(k)] : n \in 1..MaxGenChunks}
        \cup {<<LongChunk, AngleChunk>>, <<BlankChunk>>, <<BlankChunk, ShortChunk(2)>>}

\* runs long enough for the periodic merge, in which nothing fails
CalmLists ==
    {[k \in 1..n |-> ShortChunk(k)] :
        n \in {MERGE_BATCH - 1, MERGE_BATCH, MERGE_BATCH + 1, 2 * MERGE_BATCH - 1, 2 * MERGE_BATCH}}

OldAudio == Stored(Audio(<<"o", "l", "d">>))

InitGen ==
    /\ pc = "gen_loop"
    /\ \/ g_chunks \in FaultyLists /\ env = "faulty"
       \/ g_chunks \in CalmLists /\ env = "calm"
    /\ chunk_i = 0 /\ g_parts = <<>> /\ part_j = 0 /\ g_attempt = 0
    /\ tmp_files = <<>> /\ part_paths = <<>> /\ skipped = <<>>
    /\ mp3_bytes \in {None, OldAudio}
    /\ invoked = <<>> /\ ok_parts = {} /\ skipped_at = <<>>
    /\ audio_chunks = <<>> /\ merge_k = 0
    /\ ChunkIdle /\ CoalesceIdle /\ KeyIdle /\ SynthIdle /\ CleanIdle /\ ExtractIdle /\ RetryIdle /\ PureIdle

mergeVars == <<audio_chunks, merge_k>>
genOthers == <<chunkVars, coalesceVars, keyVars, synthVars, cleanVars, extractVars, retryVars, pureVars>>

\* check_and_clean_memory(85) may report high pressure
MemoryMayBeHigh == env = "faulty"
\* the speech capability may fail
CapabilityMayFail == env = "faulty"

\* one more invocation of the capability for sub-part key
Bump(f, key) ==
    [q \in (DOMAIN f) \cup {key} |->
        IF q = key THEN (IF key \in DOMAIN f THEN f[key] ELSE 0) + 1 ELSE f[q]]

CurPart == g_parts[part_j]
CurKey == <<chunk_i, part_j>>
CurPath == part_path(chunk_i, part_j, Len(g_parts))

\* the inner loop moves to the next sub-part, or the chunk is finished
NextSubPart ==
    IF part_j < Len(g_parts)
    THEN /\ part_j' = part_j + 1 /\ g_attempt' = 1 /\ pc' = "gen_attempt"
         /\ UNCHANGED g_parts
    ELSE /\ part_j' = 0 /\ g_attempt' = 0 /\ pc' = "gen_loop"
         /\ g_parts' = <<>>

\* for i, ch in enumerate(chunks, 1): the list is exhausted
GenLoopEnd ==
    /\ pc = "gen_loop"
    /\ chunk_i = Len(g_chunks)
    /\ pc' = "gen_merge"
    /\ UNCHANGED <<g_chunks, env, chunk_i, g_parts, part_j, g_attempt, tmp_files, part_paths,
                   skipped, mp3_bytes, invoked, ok_parts, skipped_at, mergeVars, genOthers>>

\* if not ch.strip(): continue
GenSkipBlank ==
    /\ pc = "gen_loop"
    /\ chunk_i < Len(g_chunks)
    /\ IsBlank(g_chunks[chunk_i + 1])
    /\ chunk_i' = chunk_i + 1
    /\ UNCHANGED <<pc, g_chunks, env, g_parts, part_j, g_attempt, tmp_files, part_paths,
                   skipped, mp3_bytes, invoked, ok_parts, skipped_at, mergeVars, genOthers>>

\* if i % 10 == 0 and not check_and_clean_memory(85): break
GenMemoryBreak ==
    /\ pc = "gen_loop"
    /\ chunk_i < Len(g_chunks)
    /\ ~IsBlank(g_chunks[chunk_i + 1])
    /\ (chunk_i + 1) % MEMORY_CHECK_EVERY = 0
    /\ MemoryMayBeHigh
    /\ chunk_i' = chunk_i + 1
    /\ pc' = "gen_merge"
    /\ UNCHANGED <<g_chunks, env, g_parts, part_j, g_attempt, tmp_files, part_paths,
                   skipped, mp3_bytes, invoked, ok_parts, skipped_at, mergeVars, genOthers>>

\* the chunk is sanitized and cut into sub-parts  (lines 669-681)
GenSplit ==
    /\ pc = "gen_loop"
    /\ chunk_i < Len(g_chunks)
    /\ ~IsBlank(g_chunks[chunk_i + 1])
    /\ chunk_i' = chunk_i + 1
    /\ g_parts' = SplitParts(sanitize_for_tts(g_chunks[chunk_i + 1]))
    /\ part_j' = 1
    /\ g_attempt' = 1
    /\ pc' = "gen_attempt"
    /\ UNCHANGED <<g_chunks, env, tmp_files, part_paths, skipped, mp3_bytes, invoked,
                   ok_parts, skipped_at, mergeVars, genOthers>>

\* synthesize_with_retry: the memory is high before an attempt, the call
\* returns False at once and the sub-part is skipped  (lines 401-403, 696)
GenMemoryHigh ==
    /\ pc = "gen_attempt"
    /\ MemoryMayBeHigh
    /\ skipped' = Append(skipped, CurPart)
    /\ skipped_at' = Append(skipped_at, CurKey)
    /\ NextSubPart
    /\ UNCHANGED <<g_chunks, env, chunk_i, tmp_files, part_paths, mp3_bytes, invoked,
                   ok_parts, mergeVars, genOthers>>

\* the attempt succeeds: the file is written and its path recorded
\* (lines 405-407, 693-694)
GenAttemptOk ==
    /\ pc = "gen_attempt"
    /\ invoked' = Bump(invoked, CurKey)
    /\ tmp_files' = WriteFile(tmp_files, CurPath, Audio(CurPart))
    /\ part_paths' = Append(part_paths, CurPath)
    /\ ok_parts' = ok_parts \cup {CurKey}
    /\ NextSubPart
    /\ UNCHANGED <<g_chunks, env, chunk_i, skipped, mp3_bytes, skipped_at, mergeVars, genOthers>>

\* the attempt raises, with or without a truncated file left behind; after
\* the last attempt the sub-part is skipped  (lines 408-410, 696)
GenAttemptFail ==
    /\ pc = "gen_attempt"
    /\ CapabilityMayFail
    /\ invoked' = Bump(invoked, CurKey)
    /\ \/ tmp_files' = WriteFile(tmp_files, CurPath, PartialAudio(CurPart))
       \/ UNCHANGED tmp_files
    /\ IF g_attempt < TRIES
       THEN /\ g_attempt' = g_attempt + 1
            /\ UNCHANGED <<pc, g_parts, part_j, skipped, skipped_at>>
       ELSE /\ skipped' = Append(skipped, CurPart)
            /\ skipped_at' = Append(skipped_at, CurKey)
            /\ NextSubPart
    /\ UNCHANGED <<g_chunks, env, chunk_i, part_paths, mp3_bytes, ok_parts, mergeVars, genOthers>>

\* nothing was produced: RuntimeError, and the handler unsets mp3_bytes
\* (lines 701-702, 744-751)
GenRaise ==
    /\ pc = "gen_merge"
    /\ merge_k = 0
    /\ NothingProduced(part_paths, skipped)
    /\ mp3_bytes' = None
    /\ pc' = "gen_failed"
    /\ UNCHANGED <<g_chunks, env, chunk_i, g_parts, part_j, g_attempt, tmp_files, part_paths,
                   skipped, invoked, ok_parts, skipped_at, mergeVars, genOthers>>

\* one round of the merge loop: the next produced file is read into the
\* buffer, which is joined into one element once it holds 50  (lines 706-716)
GenMergeStep ==
    /\ pc = "gen_merge"
    /\ ~NothingProduced(part_paths, skipped)
    /\ merge_k < Len(part_paths)
    /\ audio_chunks' = MergeBatch(Append(audio_chunks, tmp_files[part_paths[merge_k + 1]]))
    /\ merge_k' = merge_k + 1
    /\ UNCHANGED <<pc, g_chunks, env, chunk_i, g_parts, part_j, g_attempt, tmp_files,
                   part_paths, skipped, mp3_bytes, invoked, ok_parts, skipped_at, genOthers>>

\* the buffer is joined and stored as the final audio  (lines 718-722)
GenFinish ==
    /\ pc = "gen_merge"
    /\ ~NothingProduced(part_paths, skipped)
    /\ merge_k = Len(part_paths)
    /\ mp3_bytes' = Stored(Concat(audio_chunks))
    /\ pc' = "gen_done"
    /\ UNCHANGED <<g_chunks, env, chunk_i, g_parts, part_j, g_attempt, tmp_files, part_paths,
                   skipped, invoked, ok_parts, skipped_at, mergeVars, genOthers>>

NextGen ==
    \/ GenLoopEnd
    \/ GenSkipBlank
    \/ GenMemoryBreak
    \/ GenSplit
    \/ GenMemoryHigh
    \/ GenAttemptOk
    \/ GenAttemptFail
    \/ GenRaise
    \/ GenMergeStep
    \/ GenFinish

SpecGen == InitGen /\ [][NextGen]_vars

GenEnded == pc \in {"gen_done", "gen_failed"}

\* the sub-parts of chunk n, as the run cuts them
PartsOf(n) == SplitParts(sanitize_for_tts(g_chunks[n]))

\* every sub-part of every non-blank chunk, as (chunk, sub-part) pairs
AllParts ==
    {<<n, m>> \in (1..Len(g_chunks)) \X (1..2) :
        ~IsBlank(g_chunks[n]) /\ m <= Len(PartsOf(n))}

Before(a, b) == a[1] < b[1] \/ (a[1] = b[1] /\ a[2] < b[2])

\* the capability was invoked for the sub-part at least once
Attempted(key) == key \in DOMAIN invoked

\* the capability was invoked TRIES times for the sub-part and never succeeded
Exhausted(key) == Attempted(key) /\ invoked[key] = TRIES /\ key \notin ok_parts

\* C7: when the run has ended, a sub-part that failed on each of its three
\* attempts is in the skipped list with its text and not in the produced
\* list, and every sub-part after it was attempted.
C7_SkippedPartDoesNotStopRun ==
    GenEnded =>
        \A key \in AllParts :
            Exhausted(key) =>
                /\ \E k \in 1..Len(skipped_at) :
                       skipped_at[k] = key /\ skipped[k] = PartsOf(key[1])[key[2]]
                /\ \A q \in 1..Len(part_paths) :
                       part_paths[q] # part_path(key[1], key[2], Len(PartsOf(key[1])))
                /\ \A later \in AllParts : Before(key, later) => Attempted(later)

\* the produced sub-parts in increasing (chunk, sub-part) order
ProducedInOrder ==
    [k \in 1..Cardinality(ok_parts) |->
        CHOOSE key \in ok_parts : Cardinality({q \in ok_parts : Before(q, key)}) = k - 1]

\* their audio, one after the other
AudioInOrder ==
    Concat([k \in 1..Cardinality(ok_parts) |->
               Audio(PartsOf(ProducedInOrder[k][1])[ProducedInOrder[k][2]])])

\* C8: the final audio of a finished run is the concatenation of the
\* produced segments in increasing (chunk, sub-part) order, whether or not
\* the periodic merge of 50 segments has fired.
C8_FinalAudioInOrder ==
    pc = "gen_done" => mp3_bytes = Stored(AudioInOrder)

\* a finished run in which the periodic merge fired twice
C8_Witness ==
    /\ pc = "gen_done"
    /\ Len(part_paths) >= 2 * MERGE_BATCH - 1
    /\ Len(mp3_bytes.bytes) = Len(part_paths)

-----------------------------------------------------------------------------
(* textproc/cleaners.py: clean_document, and its caller in app.py          *)

\* _CTRL = [\x00-\x08\x0B\x0C\x0E-\x1F\x7F], as far as the model's characters go
CtrlChars == {"\f", "\\x01", "\\x7f"}
NotCtrl(c) == c \notin CtrlChars

\* [,.!?;:]
Punct == {",", ".", "!", "?", ";", ":"}

\* a character of s that is not whitespace, or the first of a run of \s
StartsRun(r) == r.first

\* _WHITESPACE_RE.sub(" ", s): every run of \s is one space; the first
\* character of each run is kept, as a space, and the others go
CollapseSpace(s) ==
    LET tagged == [k \in 1..Len(s) |->
                      [c |-> IF s[k] \in Space THEN " " ELSE s[k],
                       first |-> s[k] \notin Space \/ k = 1 \/ s[k - 1] \notin Space]]
        kept == SelectSeq(tagged, StartsRun)
    IN  [k \in 1..Len(kept) |-> kept[k].c]

\* control characters removed, whitespace collapsed, edges stripped
\* (the zero-width characters of _ZW are not among the model's characters)
simple_tts_clean(t) ==
    IF t = <<>> THEN <<>> ELSE Strip(CollapseSpace(SelectSeq(t, NotCtrl)))

normalize_whitespace(t) ==
    IF t = <<>> THEN <<>> ELSE Strip(CollapseSpace(t))

\* _SPACE_BEFORE_PUNCT_RE.sub(r"\1", s): \s+ before a punctuation mark goes
RECURSIVE SubSpaceBeforePunct(_, _)
SubSpaceBeforePunct(s, i) ==
    IF i > Len(s) THEN <<>>
    ELSE LET e == SkipSpace(s, i) IN
         IF e > i /\ e <= Len(s) /\ s[e] \in Punct
         THEN <<s[e]>> \o SubSpaceBeforePunct(s, e + 1)
         ELSE <<s[i]>> \o SubSpaceBeforePunct(s, i + 1)

\* _PUNCT_NEEDS_SPACE_RE.sub(r"\1 \2", s): a space between a mark and a
\* letter or digit that follows it directly
RECURSIVE SubPunctNeedsSpace(_, _)
SubPunctNeedsSpace(s, i) ==
    IF i > Len(s) THEN <<>>
    ELSE IF s[i] \in Punct /\ i < Len(s) /\ s[i + 1] \in (Letter \cup Digit)
    THEN <<s[i], " ", s[i + 1]>> \o SubPunctNeedsSpace(s, i + 2)
    ELSE <<s[i]>> \o SubPunctNeedsSpace(s, i + 1)

\* end (exclusive) of the run of punctuation marks starting at i
RECURSIVE SkipPunct(_, _)
SkipPunct(s, i) ==
    IF i <= Len(s) /\ s[i] \in Punct THEN SkipPunct(s, i + 1) ELSE i

\* _MULTI_PUNCT_RE.sub(r"\1", s): a run of marks becomes its first mark
RECURSIVE SubMultiPunct(_, _)
SubMultiPunct(s, i) ==
    IF i > Len(s) THEN <<>>
    ELSE IF s[i] \in Punct THEN <<s[i]>> \o SubMultiPunct(s, SkipPunct(s, i))
    ELSE <<s[i]>> \o SubMultiPunct(s, i + 1)

fix_punctuation_spacing(t) ==
    IF t = <<>> THEN <<>>
    ELSE SubMultiPunct(SubPunctNeedsSpace(SubSpaceBeforePunct(t, 1), 1), 1)

\* text consists of characters of the set only, and has at least one
AllIn(t, set) == Len(t) > 0 /\ \A k \in 1..Len(t) : t[k] \in set

\* [ivxlcdm], under re.IGNORECASE
RomanChars == {"i", "v", "x", "l", "c", "d", "m", "I", "V", "X", "L", "C", "D", "M"}

\* _TXT_PAGE_NUM_RE on a stripped line: 1-4 digits or 1-6 roman letters
IsTxtPageNum(line) ==
    \/ AllIn(line, Digit) /\ Len(line) <= 4
    \/ AllIn(line, RomanChars) /\ Len(line) <= 6

\* clean_txt_headers_and_footnotes on the text simple_tts_clean leaves, which
\* is one line: an isolated page number is dropped (its neighbours are
\* blank, there being none).  The other patterns of the pass need "/", a
\* digit, a bracket, "p." or a dagger and match no text of the model.
clean_txt_headers_and_footnotes(t) ==
    IF t = <<>> THEN <<>> ELSE IF IsTxtPageNum(Strip(t)) THEN <<>> ELSE Strip(t)

\* join_paragraphs_smart_txt / join_paragraphs_smart on a text without
\* blank lines or page breaks: one paragraph, stripped and collapsed
join_paragraphs_smart(t) == normalize_whitespace(t)

\* re.sub(r"_+", " ", s)
RECURSIVE SubUnderscores(_, _)
SubUnderscores(s, i) ==
    IF i > Len(s) THEN <<>>
    ELSE IF s[i] = "_"
    THEN <<" ">> \o SubUnderscores(s, CHOOSE e \in (i + 1)..(Len(s) + 1) :
                                     /\ \A k \in i..(e - 1) : s[k] = "_"
                                     /\ (e > Len(s) \/ s[e] # "_"))
    ELSE <<s[i]>> \o SubUnderscores(s, i + 1)

\* some word of the set occurs in s as a whole word, case ignored:
\* re.search(r"\b(Chapter|Page|Years)\b", s, re.I)
HasWholeWord(s, words) ==
    \E w \in words : \E i \in 1..Len(s) :
        /\ StartsWithAt(LowerStr(s), i, w)
        /\ WordBoundary(s, i)
        /\ WordBoundary(s, i + Len(w))

HeaderWords == {<<"c","h","a","p","t","e","r">>, <<"p","a","g","e">>, <<"y","e","a","r","s">>}

\* strip_firstline_headers on a one-line text: the line is the first line of
\* the only page, and goes if it looks like a header
strip_firstline_headers(t) ==
    LET first_line == Strip(t) IN
    IF first_line = <<>> THEN <<>>
    ELSE IF \/ AllIn(first_line, RomanChars)
            \/ HasWholeWord(first_line, HeaderWords) /\ \E k \in 1..Len(first_line) : first_line[k] \in Digit
            \/ /\ Len(SplitWords(first_line)) < 10
               /\ first_line[Len(first_line)] \notin {".", "!", "?"}
    THEN <<>>
    ELSE first_line

\* remove_bottom_page_numbers on a one-line text: the line goes if it is a number
remove_bottom_page_numbers(t) ==
    IF Strip(t) = <<>> THEN <<>> ELSE IF AllIn(Strip(t), Digit) THEN <<>> ELSE Strip(t)

\* _HYPHEN_CHARS, as far as the model's characters go
HyphenChars == {"-"}

\* _HYPHEN_LINEBREAK_RE.sub(r"\1\2", s): letter, hyphen, newline, letter
RECURSIVE SubHyphenLinebreak(_, _)
SubHyphenLinebreak(s, i) ==
    IF i > Len(s) THEN <<>>
    ELSE IF /\ i + 3 <= Len(s)
            /\ s[i] \in Letter /\ s[i + 1] \in HyphenChars
            /\ s[i + 2] = "\n" /\ s[i + 3] \in Letter
    THEN <<s[i], s[i + 3]>> \o SubHyphenLinebreak(s, i + 4)
    ELSE <<s[i]>> \o SubHyphenLinebreak(s, i + 1)

\* end (exclusive) of the run of \w characters starting at i
RECURSIVE WordEnd(_, _)
WordEnd(s, i) ==
    IF i <= Len(s) /\ s[i] \in WordCh THEN WordEnd(s, i + 1) ELSE i

\* _HYPHEN_MIDLINE_RE.sub(r"\1\2", s): a whole word, a hyphen, whitespace and
\* the next whole word are fused
RECURSIVE SubHyphenMidline(_, _)
SubHyphenMidline(s, i) ==
    IF i > Len(s) THEN <<>>
    ELSE LET e == WordEnd(s, i)
             f == SkipSpace(s, e + 1)
             g == WordEnd(s, f)
         IN  IF /\ e > i /\ (i = 1 \/ s[i - 1] \notin WordCh)
                /\ e <= Len(s) /\ s[e] \in HyphenChars
                /\ f > e + 1 /\ g > f
             THEN SubSeq(s, i, e - 1) \o SubSeq(s, f, g - 1) \o SubHyphenMidline(s, g)
             ELSE <<s[i]>> \o SubHyphenMidline(s, i + 1)

\* the suffixes of _HYPHEN_SUFFIX_RE
HyphenSuffixes ==
    { <<"t","u","r","e">>, <<"t","i","o","n">>, <<"m","e","n","t">>, <<"n","e","s","s">>,
      <<"i","n","g">>, <<"e","d">>, <<"e","r">>, <<"e","s","t">>, <<"l","y">>,
      <<"i","t","y">>, <<"o","u","s">>, <<"i","v","e">>, <<"f","u","l">>,
      <<"l","e","s","s">>, <<"a","b","l","e">>, <<"i","b","l","e">> }

\* a suffix of the list stands at position i of s and is followed by
\* whitespace or the end of the text (re.IGNORECASE)
SuffixAt(s, i) ==
    \E w \in HyphenSuffixes :
        /\ StartsWithAt(LowerStr(s), i, w)
        /\ (i + Len(w) > Len(s) \/ s[i + Len(w)] \in Space)

\* _HYPHEN_SUFFIX_RE.sub(r"\1\2\3", s): the hyphen between a letter and
\* such a suffix goes
RECURSIVE SubHyphenSuffix(_, _)
SubHyphenSuffix(s, i) ==
    IF i > Len(s) THEN <<>>
    ELSE IF /\ i > 1 /\ s[i] \in HyphenChars /\ s[i - 1] \in Letter
            /\ SuffixAt(s, i + 1)
    THEN SubHyphenSuffix(s, i + 1)
    ELSE <<s[i]>> \o SubHyphenSuffix(s, i + 1)

fix_line_break_hyphenation(t) ==
    IF t = <<>> THEN <<>>
    ELSE SubHyphenSuffix(SubHyphenMidline(SubHyphenLinebreak(t, 1), 1), 1)

FALLBACK_ABS_MIN == 50
FALLBACK_FLOOR_PER_1000 == 1
PFU_ABS_MIN == 50
PFU_FLOOR_PER_100 == 2

Max(a, b) == IF a >= b THEN a ELSE b

\* max(fallback_abs_min, int(fallback_floor_ratio * max(1, n)))
FallbackFloor(n) == Max(FALLBACK_ABS_MIN, (FALLBACK_FLOOR_PER_1000 * Max(1, n)) \div 1000)

\* if allow_fallback and len(text.strip()) < floor: normalize_whitespace(original)
WithFallback(cleaned, original, n, fallback) ==
    IF fallback /\ Len(Strip(cleaned)) < FallbackFloor(n)
    THEN normalize_whitespace(original)
    ELSE cleaned

\* the text clean_document hands to fix_line_break_hyphenation: on the TXT
\* path the minimally cleaned text (lines 396, 405-408), on the PDF path
\* that text after the header passes, if asked for (lines 396, 437-441)
HyphenationInput(original, k, headers) ==
    IF k = "txt" \/ ~headers THEN simple_tts_clean(original)
    ELSE remove_bottom_page_numbers(strip_firstline_headers(simple_tts_clean(original)))

\* the TXT path of clean_document (lines 400-433).  The page-citation and
\* the "foreign-born" substitutions need "p." or that word, and leave every
\* text of the model as it is.
CleanTxt(original, fallback) ==
    LET simple == simple_tts_clean(original)
        fused == fix_line_break_hyphenation(HyphenationInput(original, "txt", TRUE))
        joined == join_paragraphs_smart(clean_txt_headers_and_footnotes(fused))
        polished == normalize_whitespace(fix_punctuation_spacing(SubUnderscores(joined, 1)))
    IN  WithFallback(polished, original, Len(simple), fallback)

\* the PDF path of clean_document (lines 435-461).  Both branches of
\* "if remove_footnotes" need a digit, a bracket, "p.", a URL or a citation
\* prefix, and leave every text of the model as it is.
CleanPdf(original, headers, fallback) ==
    LET fused == fix_line_break_hyphenation(HyphenationInput(original, "pdf", headers))
        polished == normalize_whitespace(fix_punctuation_spacing(join_paragraphs_smart(fused)))
    IN  WithFallback(polished, original, Len(original), fallback)

\* the header-removal passes clean_document executes: those of the PDF
\* path under "if remove_headers"  (lines 395-396, 435-439)
HeaderPassesOf(t, k, headers) ==
    IF t # <<>> /\ k # "txt" /\ headers
    THEN {"strip_firstline_headers", "remove_bottom_page_numbers"}
    ELSE {}

\* the arguments clean_document gets from process_file_unified, which
\* passes text and kind only: the defaults  (app.py line 456, cleaners.py 385-388)
DEFAULT_REMOVE_HEADERS == TRUE
DEFAULT_ALLOW_FALLBACK == TRUE

clean_document(t, k, headers, fallback) ==
    IF t = <<>> THEN <<>>
    ELSE IF k = "txt" THEN CleanTxt(t, fallback)
    ELSE CleanPdf(t, headers, fallback)

\* bounds and inputs of the cleaning operations
MaxCleanLen == 3

CleanChars == {"k", ".", " ", "\n", "\f", "\\x01"}
CleanCores == UNION {[1..n -> CleanChars] : n \in 0..MaxCleanLen}
\* fifty characters, twenty-five words
CleanPad == [n \in 1..FALLBACK_ABS_MIN |-> IF n % 2 = 1 THEN "k" ELSE " "]
\* texts with hyphens at line ends and elsewhere
MaxHyphenTokens == 3
HyphenTokens == {<<"k">>, <<"-">>, <<" ">>, <<"\n">>, <<"e", "d">>}
Intellec == <<"i","n","t","e","l","l","e","c","-","\n","t","u","a","l">>
Intellectual == <<"i","n","t","e","l","l","e","c","t","u","a","l">>
HyphenCores ==
    {Concat(l) : l \in UNION {[1..n -> HyphenTokens] : n \in 0..MaxHyphenTokens}}
        \cup {Intellec}
\* a text over fifty thousand characters of which fifty-six survive the
\* minimal cleaning: underscored words, then control characters
MaxCleanTail == 60000
BigText == [n \in 1..(FALLBACK_ABS_MIN + 6 + MaxCleanTail) |->
               IF n > FALLBACK_ABS_MIN + 6 THEN "\\x01" ELSE IF n % 2 = 1 THEN "k" ELSE "_"]
CleanTexts ==
    LET cores == CleanCores \cup HyphenCores
    IN  cores \cup {CleanPad \o core : core \in cores} \cup {BigText}

InitClean ==
    /\ pc = "clean_start"
    /\ raw_text \in CleanTexts
    /\ kind \in {"txt", "pdf"}
    /\ remove_headers \in BOOLEAN
    /\ allow_fallback \in BOOLEAN
    /\ doc_out = NotRun
    /\ cleaned_text = NotRun
    /\ header_passes = {}
    /\ ChunkIdle /\ CoalesceIdle /\ KeyIdle /\ SynthIdle /\ GenIdle /\ ExtractIdle /\ RetryIdle /\ PureIdle

cleanOthers == <<chunkVars, coalesceVars, keyVars, synthVars, genVars, extractVars, retryVars, pureVars>>

\* clean_document(text, kind, remove_headers, ..., allow_fallback=...)
CleanDocument ==
    /\ pc = "clean_start"
    /\ doc_out' = clean_document(raw_text, kind, remove_headers, allow_fallback)
    /\ header_passes' = HeaderPassesOf(raw_text, kind, remove_headers)
    /\ pc' = "clean_done"
    /\ UNCHANGED <<raw_text, kind, remove_headers, allow_fallback, cleaned_text, cleanOthers>>

\* process_file_unified: nothing was extracted, the result has no chunks
\* (lines 446-452)
ProcessFileEmpty ==
    /\ pc = "clean_start"
    /\ Strip(raw_text) = <<>>
    /\ cleaned_text' = <<>>
    /\ pc' = "pfu_empty"
    /\ UNCHANGED <<raw_text, kind, remove_headers, allow_fallback, doc_out, header_passes,
                   cleanOthers>>

\* max(50, int(0.02 * len(raw_text)))
PfuFloor(n) == Max(PFU_ABS_MIN, (PFU_FLOOR_PER_100 * n) \div 100)

\* process_file_unified on a text file: clean_document with its defaults,
\* then the raw text if too little is left; cleaned_text goes to the chunker
\* (lines 454-459, 489-490)
ProcessFileTxt ==
    /\ pc = "clean_start"
    /\ Strip(raw_text) # <<>>
    /\ kind = "txt"
    /\ LET cleaned == clean_document(raw_text, kind, DEFAULT_REMOVE_HEADERS,
                                     DEFAULT_ALLOW_FALLBACK) IN
       cleaned_text' = IF Len(Strip(cleaned)) < PfuFloor(Len(raw_text)) THEN raw_text ELSE cleaned
    /\ header_passes' = HeaderPassesOf(raw_text, kind, DEFAULT_REMOVE_HEADERS)
    /\ pc' = "pfu_done"
    /\ UNCHANGED <<raw_text, kind, remove_headers, allow_fallback, doc_out, cleanOthers>>

\* process_file_unified on a PDF: after the same two steps the text is
\* passed to TextProcessor.clean_text of text_processor.py with two keyword
\* arguments that function does not take; the call raises TypeError and no
\* text reaches the chunker  (lines 462-469)
ProcessFilePdf ==
    /\ pc = "clean_start"
    /\ Strip(raw_text) # <<>>
    /\ kind = "pdf"
    /\ LET cleaned == clean_document(raw_text, kind, DEFAULT_REMOVE_HEADERS,
                                     DEFAULT_ALLOW_FALLBACK) IN
       cleaned_text' = IF Len(Strip(cleaned)) < PfuFloor(Len(raw_text)) THEN raw_text ELSE cleaned
    /\ header_passes' = HeaderPassesOf(raw_text, kind, DEFAULT_REMOVE_HEADERS)
    /\ pc' = "pfu_raised"
    /\ UNCHANGED <<raw_text, kind, remove_headers, allow_fallback, doc_out, cleanOthers>>

NextClean ==
    \/ CleanDocument
    \/ ProcessFileEmpty
    \/ ProcessFileTxt
    \/ ProcessFilePdf

SpecClean == InitClean /\ [][NextClean]_vars

\* no blank line, no page break, no control character
Flat(t) ==
    /\ \A k \in 1..(Len(t) - 1) : ~(t[k] = "\n" /\ t[k + 1] = "\n")
    /\ \A k \in 1..Len(t) : t[k] \notin CtrlChars

\* C10: the text clean_document returns, and the cleaned_text that
\* process_file_unified hands to the chunker, contain no two consecutive
\* newlines, no form feed and no control character, for every input, kind
\* and option, fallbacks included.
C10_CleanedTextIsFlat ==
    /\ pc = "clean_done" => Flat(doc_out)
    /\ pc = "pfu_done" => Flat(cleaned_text)

\* C11: clean_document applied to "intellec-\ntual" returns "intellectual",
\* the word fused with no hyphen and no break.
C11_HyphenatedWordIsFused ==
    (pc = "clean_done" /\ raw_text = Intellec) => doc_out = Intellectual

PfuEnded == pc \in {"pfu_empty", "pfu_done", "pfu_raised"}

\* C12: when process_file_unified is called with remove_headers = False, no
\* header-removal pass (strip_firstline_headers, remove_bottom_page_numbers)
\* is executed on the text.
C12_HeaderPassesOnlyWhenAsked ==
    (PfuEnded /\ ~remove_headers) => header_passes = {}

\* the text that survives the passes of clean_document: its result with the
\* fallback off
Survivor == clean_document(raw_text, kind, remove_headers, FALSE)

\* max(fallback_abs_min, int(fallback_floor_ratio * input length))
FloorOfInput == FallbackFloor(Len(raw_text))

\* C13: with allow_fallback on, whenever the text surviving the passes is
\* shorter than the floor computed from the input length, clean_document
\* returns the whitespace-normalized original; and the result is not empty
\* when the input has a non-whitespace character.
C13_FallbackBelowFloor ==
    (pc = "clean_done" /\ allow_fallback) =>
        /\ Len(Strip(Survivor)) < FloorOfInput => doc_out = normalize_whitespace(raw_text)
        /\ Strip(raw_text) # <<>> => doc_out # <<>>

-----------------------------------------------------------------------------
(* textproc/chunking.py: split_into_sentences on its own                   *)

MaxSentTokens == 5
AbbrTokens == {<<"D", "r">>, <<"B">>, <<".">>, <<" ">>, <<"H", "e">>, <<"?">>}
DegreeTokens == {<<"E">>, <<"D">>, <<"P", "h">>, <<".">>, <<" ">>, <<"x">>}

DrSmith == <<"D","r","."," ","S","m","i","t","h"," ","w","e","n","t"," ","h","o","m","e","."," ","H","e"," ","w","a","s"," ","t","i","r","e","d",".">>
DrSmithWentHome == <<"D","r","."," ","S","m","i","t","h"," ","w","e","n","t"," ","h","o","m","e",".">>
HeWasTired == <<"H","e"," ","w","a","s"," ","t","i","r","e","d",".">>

TokenLists(tokens, n) == UNION {[1..m -> tokens] : m \in 0..n}
SentTexts ==
    {Concat(l) : l \in TokenLists(AbbrTokens, MaxSentTokens)}
        \cup {Concat(l) : l \in TokenLists(DegreeTokens, MaxSentTokens)}
        \cup {DrSmith}

InitSentences ==
    /\ pc = "sent_start"
    /\ text \in SentTexts
    /\ max_length = 0
    /\ chunks = NotRun
    /\ sentences = NotRun
    /\ CoalesceIdle /\ KeyIdle /\ SynthIdle /\ GenIdle /\ CleanIdle /\ ExtractIdle /\ RetryIdle /\ PureIdle

SplitSentences ==
    /\ pc = "sent_start"
    /\ sentences' = split_into_sentences(text)
    /\ pc' = "sent_done"
    /\ UNCHANGED <<text, max_length, chunks, coalesceVars, keyVars, synthVars, genVars,
                   cleanVars, extractVars, retryVars, pureVars>>

NextSentences == SplitSentences

SpecSentences == InitSentences /\ [][NextSentences]_vars

\* s ends with a listed abbreviation and its period
EndsWithAbbrDot(s) ==
    \E k \in 1..Len(ABBR_LIST) :
        LET n == Len(ABBR_LIST[k]) IN
        /\ Len(s) >= n + 1
        /\ s[Len(s)] = "."
        /\ LowerStr(SubSeq(s, Len(s) - n, Len(s) - 1)) = LowerStr(ABBR_LIST[k])
        /\ WordBoundary(s, Len(s) - n)

\* C14: split_into_sentences never ends a sentence, other than the last, at
\* the period of a listed abbreviation; it returns non-empty strings only,
\* in the order of the text; and "Dr. Smith went home. He was tired." gives
\* exactly its two sentences.
C14_NoSplitAtAbbreviation ==
    pc = "sent_done" =>
        /\ \A k \in 1..(Len(sentences) - 1) : ~EndsWithAbbrDot(sentences[k])
        /\ \A k \in 1..Len(sentences) : sentences[k] # <<>>
        /\ NoSpace(Concat(sentences)) = NoSpace(restore_abbreviations(text))
        /\ text = DrSmith => sentences = <<DrSmithWentHome, HeWasTired>>

\* the scenario text was split, and in two
C14_Witness ==
    /\ pc = "sent_done"
    /\ text = DrSmith
    /\ Len(sentences) = 2

\* " ".join(list)
RECURSIVE JoinSpaces(_)
JoinSpaces(list) ==
    IF list = <<>> THEN <<>>
    ELSE IF Len(list) = 1 THEN list[1]
    ELSE list[1] \o <<" ">> \o JoinSpaces(Tail(list))

\* the whitespace of t is single spaces only
SingleSpaced(t) ==
    /\ \A k \in 1..Len(t) : t[k] \in Space => t[k] = " "
    /\ \A k \in 1..(Len(t) - 1) : ~(t[k] = " " /\ t[k + 1] = " ")

\* C15: for a text whose whitespace is single spaces only, the sentences
\* joined with single spaces are the stripped text, character for
\* character, dotted abbreviations and degrees included.
C15_SentencesRoundTrip ==
    (pc = "sent_done" /\ SingleSpaced(text)) => JoinSpaces(sentences) = Strip(text)

-----------------------------------------------------------------------------
(* textproc/extractors.py, textproc/processor.py and text_processor.py:    *)
(* scoring and reading a PDF.  The two PDF libraries are outside the       *)
(* program: a run of one of them is the list of page texts it extracted    *)
(* and whether it raised after them.                                       *)

Min(a, b) == IF a <= b THEN a ELSE b

\* list joined with sep: sep.join(list)
JoinWith(list, sep) ==
    Concat([k \in 1..Len(list) |-> IF k = 1 THEN list[k] ELSE sep \o list[k]])

\* t * n
Repeat(t, n) == Concat([k \in 1..n |-> t])

CountIn(s, set) == Cardinality({k \in 1..Len(s) : s[k] \in set})

\* the alternatives of broken_patterns in score_text
BROKEN_PATTERNS == {
    <<"t"," ","h","e">>, <<"w"," ","a","s">>, <<"i"," ","s">>, <<"a"," ","r","e">>, <<"h"," ","a","s">>,
    <<"h"," ","a","d">>, <<"w"," ","i","t","h">>, <<"f"," ","r","o","m">>, <<"t"," ","h","a","t">>, <<"t"," ","h","i","s">> }

\* len(re.findall(broken_patterns, s, re.IGNORECASE)): matches of this
\* pattern cannot overlap, so every position where it matches is one match
BrokenCount(s) ==
    LET low == LowerStr(s) IN
    Cardinality({p \in 1..Len(s) :
        /\ WordBoundary(s, p)
        /\ \E b \in BROKEN_PATTERNS :
              StartsWithAt(low, p, b) /\ WordBoundary(s, p + Len(b))})

\* U+FFFD is counted by two of the three terms of junk, NUL by the third
JunkCount(s) == 2 * CountIn(s, {"\\ufffd"}) + CountIn(s, {"\\x00"})

\* the line boundaries of str.splitlines() among the model's characters
LineEnds == {"\n", "\r", "\f"}

\* lines ended by a terminator; "\r\n" is one terminator
LineTerminators(s) ==
    {k \in 1..Len(s) : s[k] \in LineEnds
                       /\ ~(s[k] = "\r" /\ k < Len(s) /\ s[k + 1] = "\n")}

\* len(s.splitlines())
LineCount(s) ==
    Cardinality(LineTerminators(s))
    + (IF Len(s) > 0 /\ s[Len(s)] \notin LineEnds THEN 1 ELSE 0)

\* len(s.split())
WordCount(s) ==
    Cardinality({k \in 1..Len(s) : s[k] \notin Space /\ (k = 1 \/ s[k - 1] \in Space)})

\* score_text, in millionths, every term rounded down
score_text(s) ==
    IF Len(s) < 50 THEN 0
    ELSE LET n == Len(s)
             letters == CountIn(s, Letter)
             spaces == CountIn(s, {" "})
             nwords == Max(1, WordCount(s))
             wordchars == n - CountIn(s, Space)
             broken_count == BrokenCount(SubSeq(s, 1, Min(1000, n)))
             nlines == Max(1, LineCount(s))
             linechars == n - CountIn(s, LineEnds)
         IN  IF wordchars > 15 * nwords THEN 100000
             ELSE IF broken_count > 3 THEN 200000
             ELSE Max(0, (letters * 350000) \div n
                         + (spaces * 250000) \div n
                         + ((20 * nwords - Min(wordchars, 20 * nwords)) * 200000) \div (20 * nwords)
                         + (linechars * 150000) \div (120 * nlines)
                         - (JunkCount(s) * 300000) \div n
                         - broken_count * 50000)

\* the keys of broken_words in fix_extraction_spacing, in order: the first
\* letter and, after \s+, the rest of the word
BROKEN_WORDS == <<
    <<<<"t">>, <<"h","e">>>>, <<<<"w">>, <<"a","s">>>>, <<<<"i">>, <<"s">>>>,
    <<<<"a">>, <<"r","e">>>>, <<<<"w">>, <<"e","r","e">>>>, <<<<"h">>, <<"a","s">>>>,
    <<<<"h">>, <<"a","d">>>>, <<<<"h">>, <<"a","v","e">>>>, <<<<"b">>, <<"e","e","n">>>>,
    <<<<"w">>, <<"i","t","h">>>>, <<<<"f">>, <<"r","o","m">>>>, <<<<"t">>, <<"h","a","t">>>>,
    <<<<"t">>, <<"h","i","s">>>>, <<<<"w">>, <<"h","a","t">>>>, <<<<"a">>, <<"n","d">>>>,
    <<<<"f">>, <<"o","r">>>>, <<<<"n">>, <<"o","t">>>>, <<<<"b">>, <<"u","t">>>>,
    <<<<"o">>, <<"f">>>>, <<<<"i">>, <<"n">>>>, <<<<"t">>, <<"o">>>>,
    <<<<"a">>, <<"t">>>>, <<<<"o">>, <<"n">>>>, <<<<"i">>, <<"t">>>>,
    <<<<"a">>, <<"s">>>>, <<<<"b">>, <<"y">>>>, <<<<"m">>, <<"y">>>>,
    <<<<"w">>, <<"e">>>>, <<<<"h">>, <<"e">>>>, <<<<"m">>, <<"e">>>>,
    <<<<"n">>, <<"o">>>>, <<<<"d">>, <<"o">>>>, <<<<"i">>, <<"f">>>> >>

\* positions where \b<first>\s+<rest>\b matches, ignoring case
BrokenWordStarts(t, w) ==
    {p \in 1..Len(t) :
        /\ WordBoundary(t, p)
        /\ ToLower(t[p]) = w[1][1]
        /\ p < Len(t) /\ t[p + 1] \in Space
        /\ LET q == SkipSpace(t, p + 1) IN
           /\ StartsWithAt(LowerStr(t), q, w[2])
           /\ WordBoundary(t, q + Len(w[2]))}

Kept(r) == r.keep

\* re.sub of one key by its word: in every match the whitespace goes and
\* the letters become those of the replacement (matches cannot overlap)
SubBrokenWord(t, w) ==
    LET starts == BrokenWordStarts(t, w)
        InMatch(k) == \E p \in starts : p <= k /\ k <= SkipSpace(t, p + 1) + Len(w[2]) - 1
        tagged == [k \in 1..Len(t) |->
                      IF InMatch(k)
                      THEN [c |-> ToLower(t[k]), keep |-> t[k] \notin Space]
                      ELSE [c |-> t[k], keep |-> TRUE]]
        kept == SelectSeq(tagged, Kept)
    IN  IF starts = {} THEN t ELSE <<>> \o [k \in 1..Len(kept) |-> kept[k].c]

RECURSIVE SubBrokenWords(_, _)
SubBrokenWords(t, k) ==
    IF k > Len(BROKEN_WORDS) THEN t
    ELSE LET r == SubBrokenWord(t, BROKEN_WORDS[k]) IN
         IF r = t THEN SubBrokenWords(t, k + 1) ELSE SubBrokenWords(r, k + 1)

\* a character of first followed by a capital: ([a-z])([A-Z]), ([.!?])([A-Z])
BeforeCapital(t, first, k) == k < Len(t) /\ t[k] \in first /\ t[k + 1] \in Upper

\* re.sub with the replacement r'\1 \2': a space goes between the two
SubSpaceBeforeCapital(t, first) ==
    Concat([k \in 1..Len(t) |->
               IF BeforeCapital(t, first, k) THEN <<t[k], " ">> ELSE <<t[k]>>])

\* the replacement r"\\1 \\2": a backslash, "1", a space, a backslash, "2"
BACKSLASH_GROUPS == <<"\\", "1", " ", "\\", "2">>

\* re.sub with the replacement r"\\1 \\2": that text goes in place of the two
SubGroupsBeforeCapital(t, first) ==
    Concat([k \in 1..Len(t) |->
               IF BeforeCapital(t, first, k) THEN BACKSLASH_GROUPS
               ELSE IF k > 1 /\ BeforeCapital(t, first, k - 1) THEN <<>>
               ELSE <<t[k]>>])

SentenceEnd == {".", "!", "?"}

fix_extraction_spacing(t) ==
    SubSpaceBeforeCapital(SubSpaceBeforeCapital(SubBrokenWords(t, 1), Lower), SentenceEnd)

\* what extract_with_pypdf and extract_with_pdfplumber return when the
\* library gets these pages: "" when it raised, else the stripped pages
\* joined by a page break, stripped and passed through fix_extraction_spacing
ExtractWith(pages, raised) ==
    IF raised THEN <<>>
    ELSE fix_extraction_spacing(
             Strip(JoinWith([k \in 1..Len(pages) |-> Strip(pages[k])], <<"\f", "\n">>)))

\* the value of that call is kept with the run, in its field text
extract_with_pypdf == pypdf_run.text
extract_with_pdfplumber == plumber_run.text

\* _EXCESSIVE_WHITESPACE is r"\\s{3,}": a backslash followed by three or
\* more letters s
RECURSIVE SkipLetterS(_, _)
SkipLetterS(t, k) == IF k <= Len(t) /\ t[k] = "s" THEN SkipLetterS(t, k + 1) ELSE k

RECURSIVE SubBackslashS(_, _)
SubBackslashS(t, k) ==
    IF k > Len(t) THEN <<>>
    ELSE IF t[k] = "\\" /\ SkipLetterS(t, k + 1) >= k + 4
         THEN <<" ">> \o SubBackslashS(t, SkipLetterS(t, k + 1))
         ELSE <<t[k]>> \o SubBackslashS(t, k + 1)

\* _SUSPICIOUS_JAMMING.search: twenty lowercase letters in a row
Jammed(t) ==
    \E k \in 1..(Len(t) - 19) : \A d \in 0..19 : t[k + d] \in Lower

\* _EXCESSIVE_WHITESPACE.sub(" ", text)  (line 116)
ShrinkWhitespace(t) ==
    IF \E k \in 1..Len(t) : t[k] = "\\" THEN SubBackslashS(t, 1) ELSE t

\* lines 119-122
SplitJammed(t) ==
    IF Jammed(SubSeq(t, 1, Min(1000, Len(t))))
    THEN SubGroupsBeforeCapital(SubGroupsBeforeCapital(t, Lower), SentenceEnd)
    ELSE t

_fix_common_issues(t) ==
    IF t = <<>> THEN <<>>
    ELSE Strip(SplitJammed(ShrinkWhitespace(fix_extraction_spacing(t))))

\* "\n".join(text_parts).strip() of text_processor.read_pdf_file
LegacyJoin(pages) == Strip(JoinWith(pages, <<"\n">>))

MSG_NOT_PDF == <<
    "E","R","R","O","R",":"," ","N","o","t"," ","a"," ","v","a","l",
    "i","d"," ","P","D","F"," ","f","i","l","e","." >>
MSG_NO_TEXT == <<
    "E","R","R","O","R",":"," ","C","o","u","l","d"," ","n","o","t",
    " ","e","x","t","r","a","c","t"," ","t","e","x","t","."," ","T",
    "r","y"," ","c","o","n","v","e","r","t","i","n","g"," ","t","o",
    " ","T","X","T"," ","f","o","r","m","a","t","." >>
MSG_TOO_LARGE_HEAD == <<
    "E","R","R","O","R",":"," ","P","D","F"," ","t","o","o"," ","l",
    "a","r","g","e"," ","(" >>
MSG_TOO_LARGE_TAIL == <<
    "M","B",")","."," ","M","a","x","i","m","u","m"," ","s","i","z",
    "e"," ","i","s"," ","1","0","M","B","." >>

BYTES_PER_MB == 1048576
MAX_PDF_MB == 10

DigitSeq == <<"0","1","2","3","4","5","6","7","8","9">>
RECURSIVE IntToStr(_)
IntToStr(n) ==
    IF n < 10 THEN <<DigitSeq[n + 1]>> ELSE IntToStr(n \div 10) \o <<DigitSeq[(n % 10) + 1]>>

\* f"{size_mb:.1f}": the size in tenths of a megabyte, rounded to nearest
FormatMb(size) ==
    LET tenths == (size * 10 + BYTES_PER_MB \div 2) \div BYTES_PER_MB
    IN  IntToStr(tenths \div 10) \o <<".">> \o IntToStr(tenths % 10)

MSG_TOO_LARGE(size) == MSG_TOO_LARGE_HEAD \o FormatMb(size) \o MSG_TOO_LARGE_TAIL

\* text_processor.TextProcessor.read_pdf_file (lines 20-44): the text and
\* the backends it came from.  text_parts is shared by the two attempts.
LegacyRead ==
    LET first == LegacyJoin(plumber_run.pages)
        both == LegacyJoin(plumber_run.pages \o pypdf_run.pages)
    IN  IF ~plumber_run.raised /\ first # <<>>
        THEN [text |-> first, from |-> {"pdfplumber"}]
        ELSE IF pypdf_run.raised
        THEN [text |-> <<>>, from |-> {}]
        ELSE [text |-> both,
              from |-> {b \in {"pdfplumber"} : first # <<>>}
                       \cup {b \in {"pypdf"} : LegacyJoin(pypdf_run.pages) # <<>>}]

\* textproc.processor.TextProcessor.read_pdf_file (lines 49-99)
TextprocRead(fallback) ==
    LET extracted == extract_with_pypdf
        decent == /\ extracted # <<>>
                  /\ Len(Strip(extracted)) > 100
                  /\ 10 * CountIn(extracted, Letter) > 6 * Len(extracted)
        second == extract_with_pdfplumber
    IN  IF pdf_size = 0 \/ ~pdf_valid
        THEN [text |-> MSG_NOT_PDF, from |-> {}]
        ELSE IF pdf_size > MAX_PDF_MB * BYTES_PER_MB
        THEN [text |-> MSG_TOO_LARGE(pdf_size), from |-> {}]
        ELSE IF decent
        THEN [text |-> _fix_common_issues(extracted), from |-> {"pypdf"}]
        ELSE IF extracted = <<>> /\ fallback /\ second # <<>>
        THEN [text |-> _fix_common_issues(second), from |-> {"pdfplumber"}]
        ELSE IF extracted # <<>>
        THEN [text |-> _fix_common_issues(extracted), from |-> {"pypdf"}]
        ELSE [text |-> MSG_NO_TEXT, from |-> {}]

read_pdf_file(fallback) ==
    IF reader = "text_processor" THEN LegacyRead ELSE TextprocRead(fallback)

MaxPages == 1

GoodPage == Repeat(<<"t","h","e"," ","c","a","t"," ">>, 7)
LongPage == Repeat(<<"t","h","e"," ","c","a","t"," ">>, 14)
JammedPage == Repeat(<<"k">>, 56)
BrokenPage == Repeat(<<"t"," ","h","e"," ","w"," ","a","s"," ">>, 6)
ShortPage == <<"o","k">>
BlankPage == <<" ">>
PagePool == {GoodPage, LongPage, JammedPage, BrokenPage, ShortPage, BlankPage}

\* what a library can do on a document: the pages it got through, whether
\* it then raised, and the text its extract_with_* function returns for that
BackendRuns ==
    {[pages |-> p, raised |-> r, text |-> ExtractWith(p, r)] :
        p \in UNION {[1..n -> PagePool] : n \in 0..MaxPages}, r \in BOOLEAN}

\* len(file_bytes): no bytes, a small file, a file of 11 MB
PdfSizes == {0, 2000, 11 * BYTES_PER_MB}

InitExtract ==
    /\ pc = "extract_start"
    /\ pdf_size \in PdfSizes
    /\ pdf_valid \in BOOLEAN
    /\ pdf_valid => pdf_size >= 4
    /\ plumber_run \in BackendRuns
    /\ pypdf_run \in BackendRuns
    \* no library gets a page out of no bytes
    /\ pdf_size = 0 => \A run \in {plumber_run, pypdf_run} : run.raised /\ run.pages = <<>>
    /\ reader \in {"text_processor", "textproc.processor"}
    /\ fallback_on_error \in BOOLEAN
    /\ extracted_text = NotRun
    /\ chosen = {}
    /\ pfu_out = "not run"
    /\ ChunkIdle /\ CoalesceIdle /\ KeyIdle /\ SynthIdle /\ GenIdle /\ CleanIdle /\ RetryIdle /\ PureIdle

extractOthers == <<chunkVars, coalesceVars, keyVars, synthVars, genVars, retryVars, pureVars>>

\* TextProcessor.read_pdf_file(file_bytes, fallback_on_error)
ReadPdfFile ==
    /\ pc = "extract_start"
    /\ LET r == read_pdf_file(fallback_on_error) IN
       /\ extracted_text' = r.text
       /\ chosen' = r.from
    /\ pc' = "read_done"
    /\ UNCHANGED <<pdf_valid, pdf_size, plumber_run, pypdf_run, reader, fallback_on_error,
                   pfu_out, cleanVars, extractOthers>>

\* process_file_unified on an upload named *.pdf, up to the call of
\* clean_document (lines 435-456): TextProcessor.read_pdf_file(file_bytes),
\* then the empty result with meta.error if the text is blank, else the text
\* goes on as raw_text.  Both modules define TextProcessor with this method;
\* reader is the one the name is bound to.
ProcessFileRead ==
    /\ pc = "extract_start"
    /\ LET r == read_pdf_file(TRUE) IN
       /\ extracted_text' = r.text
       /\ chosen' = r.from
       /\ IF Strip(r.text) = <<>>
          THEN pfu_out' = "empty_error" /\ raw_text' = raw_text
          ELSE pfu_out' = "to_clean" /\ raw_text' = r.text
    /\ pc' = "pfu_read"
    /\ UNCHANGED <<pdf_valid, pdf_size, plumber_run, pypdf_run, reader, fallback_on_error,
                   kind, remove_headers, allow_fallback, doc_out, cleaned_text, header_passes,
                   extractOthers>>

NextExtract ==
    \/ ReadPdfFile
    \/ ProcessFileRead

SpecExtract == InitExtract /\ [][NextExtract]_vars

\* the text one backend contributes as a candidate
Candidate(run) ==
    IF reader = "text_processor"
    THEN (IF run.raised THEN <<>> ELSE LegacyJoin(run.pages))
    ELSE run.text

\* read_pdf_file does not turn the bytes down before extracting
Accepted ==
    reader = "text_processor" \/ (pdf_valid /\ pdf_size <= MAX_PDF_MB * BYTES_PER_MB)

BestScore == Max(score_text(Candidate(plumber_run)), score_text(Candidate(pypdf_run)))

\* C16: when both backends yield non-empty text for the same bytes,
\* read_pdf_file returns the text of a candidate whose score_text is the
\* highest of the two (as extracted, or after _fix_common_issues).
C16_HighestScoreIsReturned ==
    (/\ pc = "read_done"
     /\ Accepted
     /\ Candidate(plumber_run) # <<>>
     /\ Candidate(pypdf_run) # <<>>)
    => \E run \in {plumber_run, pypdf_run} :
          /\ score_text(Candidate(run)) = BestScore
          /\ extracted_text \in {Candidate(run), _fix_common_issues(Candidate(run))}

\* no backend got any text out of any page
NoBackendText == \A run \in {plumber_run, pypdf_run} : LegacyJoin(run.pages) = <<>>

\* some backend ran to its end and has text
SomeBackendText == Candidate(plumber_run) # <<>> \/ Candidate(pypdf_run) # <<>>

ErrorMessages == {MSG_NOT_PDF, MSG_NO_TEXT} \cup {MSG_TOO_LARGE(n) : n \in PdfSizes}

C18_ChunkingIsGreedy ==
    pc = "chunk_done" =>
        LET sents == split_into_sentences(text) IN
        /\ \A k \in 1..(Len(chunks) - 1) :
           \A a \in 1..Len(sents) : \A b \in a..Len(sents) : \A c \in (b + 1)..Len(sents) :
              (/\ chunks[k] = JoinSpaces(SubSeq(sents, a, b))
               /\ chunks[k + 1] = JoinSpaces(SubSeq(sents, b + 1, c)))
              => Len(chunks[k]) + 1 + Len(sents[b + 1]) > max_length
        /\ (text = OneToSeven /\ max_length = 20)
              => chunks = <<OneTwoThree, FourFiveSixSeven>>

\* the scenario was split, and its two sentences did not fit one chunk
C18_Witness ==
    /\ pc = "chunk_done"
    /\ text = OneToSeven
    /\ max_length = 20
    /\ Len(chunks) = 2
    /\ Len(OneTwoThree) + 1 + Len(FourFiveSixSeven) > max_length

\* s.split("\n\n"): the pieces between the joiners, from the left
RECURSIVE SplitParagraphs(_, _, _)
SplitParagraphs(s, from, k) ==
    IF k > Len(s) THEN <<SubSeq(s, from, Len(s))>>
    ELSE IF StartsWithAt(s, k, <<"\n", "\n">>)
         THEN <<SubSeq(s, from, k - 1)>> \o SplitParagraphs(s, k + 2, k + 2)
         ELSE SplitParagraphs(s, from, k + 1)

\* C19: coalesce_chunks only merges adjacent chunks.  For chunks without a
\* newline, the outputs split on the two-newline joiner and put end to end
\* are the input list, same chunks in the same order, and the output is no
\* longer than the input.
C19_CoalesceKeepsOrder ==
    pc = "coalesce_done" =>
        /\ Concat([k \in 1..Len(co_out) |-> SplitParagraphs(co_out[k], 1, 1)]) = co_chunks
        /\ Len(co_out) <= Len(co_chunks)

\* two different chunks were merged into one output, and there is another output
C19_Witness ==
    /\ pc = "coalesce_done"
    /\ 1 < Len(co_out)
    /\ Len(co_out) < Len(co_chunks)
    /\ \E k \in 1..Len(co_out) :
          LET pieces == SplitParagraphs(co_out[k], 1, 1) IN
          Len(pieces) >= 2 /\ pieces[1] # pieces[2]

\* C20: memory pressure never changes the outcome for a fragment.  Every
\* sub-part recorded as skipped is one for which the capability was invoked
\* and failed on each of the TRIES attempts.
C20_SkippedOnlyAfterAllTries ==
    \A k \in 1..Len(skipped_at) : Exhausted(skipped_at[k])

-----------------------------------------------------------------------------
(* synthesize_with_retry (app.py, lines 388-410) on its own: the loop over  *)
(* range(1, tries + 1), the memory check before each attempt, the call of   *)
(* the capability and the sleep after a failed call.                        *)

MaxTries == 4
MaxDelay == 8

InitRetry ==
    /\ pc = "retry_attempt"
    /\ r_tries \in 0..MaxTries
    /\ r_delay \in 1..MaxDelay
    /\ r_attempt = 1
    /\ r_calls = 0
    /\ waits = <<>>
    /\ r_ret = "running"
    /\ ChunkIdle /\ CoalesceIdle /\ KeyIdle /\ SynthIdle /\ GenIdle /\ CleanIdle /\ ExtractIdle
    /\ PureIdle

retryOthers == <<chunkVars, coalesceVars, keyVars, synthVars, genVars, cleanVars, extractVars,
                 pureVars>>

\* time.sleep(delay * attempt)
SleepFor(d, a) == d * a

\* if not check_and_clean_memory(85): return False  (lines 401-403)
RetryMemoryHigh ==
    /\ pc = "retry_attempt"
    /\ r_attempt <= r_tries
    /\ r_ret' = "False"
    /\ pc' = "retry_done"
    /\ UNCHANGED <<r_tries, r_delay, r_attempt, r_calls, waits, retryOthers>>

\* asyncio.run(...) returns: return True  (lines 405-407)
RetryCallOk ==
    /\ pc = "retry_attempt"
    /\ r_attempt <= r_tries
    /\ r_calls' = r_calls + 1
    /\ r_ret' = "True"
    /\ pc' = "retry_done"
    /\ UNCHANGED <<r_tries, r_delay, r_attempt, waits, retryOthers>>

\* asyncio.run(...) raises: time.sleep(delay * attempt), next attempt
\* (lines 408-409)
RetryCallFail ==
    /\ pc = "retry_attempt"
    /\ r_attempt <= r_tries
    /\ r_calls' = r_calls + 1
    /\ waits' = Append(waits, SleepFor(r_delay, r_attempt))
    /\ r_attempt' = r_attempt + 1
    /\ UNCHANGED <<pc, r_tries, r_delay, r_ret, retryOthers>>

\* the range is exhausted: return False  (line 410)
RetryExhausted ==
    /\ pc = "retry_attempt"
    /\ r_attempt > r_tries
    /\ r_ret' = "False"
    /\ pc' = "retry_done"
    /\ UNCHANGED <<r_tries, r_delay, r_attempt, r_calls, waits, retryOthers>>

NextRetry == RetryMemoryHigh \/ RetryCallOk \/ RetryCallFail \/ RetryExhausted
SpecRetry == InitRetry /\ [][NextRetry]_vars

\* the sleeps that were followed by another attempt
WaitsBetweenAttempts ==
    IF r_attempt > r_tries /\ waits # <<>> THEN SubSeq(waits, 1, Len(waits) - 1) ELSE waits

\* w[1], w[2], ... is a geometric progression of ratio greater than 1
Geometric(w) ==
    /\ \A k \in 1..(Len(w) - 1) : w[k + 1] > w[k]
    /\ \A k \in 1..(Len(w) - 2) : w[k + 1] * w[k + 1] = w[k] * w[k + 2]

\* C21: synthesize_with_retry invokes the capability at most tries times,
\* makes no invocation after a success, and the sleeps between consecutive
\* failed attempts grow by a constant factor greater than 1.
C21_ExponentialBackoff ==
    /\ r_calls <= r_tries
    /\ r_ret = "True" => r_calls = Len(waits) + 1 /\ pc = "retry_done"
    /\ Geometric(WaitsBetweenAttempts)

-----------------------------------------------------------------------------
\* the hyphens of t that end a line: a hyphen-like character followed at
\* once by a line break
EndOfLineHyphens(t) ==
    Cardinality({k \in 1..(Len(t) - 1) : t[k] \in HyphenChars /\ t[k + 1] = "\n"})

\* C22: on both paths of clean_document, when fix_line_break_hyphenation
\* is applied every end-of-line hyphen of the input is still followed by
\* its line break: no earlier pass has turned line breaks into spaces.
C22_HyphenationBeforeLineJoin ==
    pc = "clean_done" =>
        EndOfLineHyphens(HyphenationInput(raw_text, kind, remove_headers))
            = EndOfLineHyphens(raw_text)

-----------------------------------------------------------------------------
(* Pure functions called on their own: the argument is drawn from a pool   *)
(* of texts and the function is applied to it.                             *)

pureOthers == <<chunkVars, coalesceVars, keyVars, synthVars, genVars, cleanVars, extractVars,
                retryVars>>
OthersIdle ==
    /\ ChunkIdle /\ CoalesceIdle /\ KeyIdle /\ SynthIdle /\ GenIdle /\ CleanIdle /\ ExtractIdle
    /\ RetryIdle

\* score_text(s): texts of one line, of many lines, jammed and broken
MaxRepeat == 64
ScoreUnits == {<<"t","h","e"," ","c","a","t"," ">>, <<"t","h","e"," ","c","a","t","\n">>,
               <<"k">>, <<"t"," ","h","e"," ">>}
ScoreTexts == {Repeat(unit, n) : unit \in ScoreUnits, n \in 1..MaxRepeat}

InitScore ==
    /\ pc = "score_start"
    /\ fn_arg \in ScoreTexts
    /\ fn_out = NotRun
    /\ OthersIdle

ScoreText ==
    /\ pc = "score_start"
    /\ fn_out' = score_text(fn_arg)
    /\ pc' = "score_done"
    /\ UNCHANGED <<fn_arg, pureOthers>>

NextScore == ScoreText
SpecScore == InitScore /\ [][NextScore]_vars

\* 1.0 on the scale of score_text, in millionths; the four bonuses would
\* add up to 0.95 if each stayed within its weight
ScoreCeiling == 1000 * 1000

\* C23: score_text is bounded by a fixed constant of about 1: longer lines
\* never raise the score past it.
C23_ScoreIsBounded ==
    pc = "score_done" => fn_out <= ScoreCeiling

-----------------------------------------------------------------------------
\* the sanitized text of the chunk the generation loop is working on
SafeChunk == sanitize_for_tts(g_chunks[chunk_i])

\* C24: every text handed to the capability is at most SAFE_MAX characters
\* long; the sub-parts of a chunk are the consecutive SAFE_MAX-character
\* slices of its sanitized text, and joined in order they give that text back.
C24_PartsWithinSafeMax ==
    pc = "gen_attempt" =>
        /\ Len(CurPart) <= SAFE_MAX
        /\ \A k \in 1..Len(g_parts) :
              g_parts[k] = SubSeq(SafeChunk, (k - 1) * SAFE_MAX + 1,
                                  Min(k * SAFE_MAX, Len(SafeChunk)))
        /\ Concat(g_parts) = SafeChunk

\* the second sub-part of a chunk over the limit is being synthesized
C24_Witness ==
    /\ pc = "gen_attempt"
    /\ Len(SafeChunk) > SAFE_MAX
    /\ part_j = 2
    /\ <<chunk_i, 1>> \in DOMAIN invoked

-----------------------------------------------------------------------------
\* sanitize(text) of textproc/tts.py on texts of letters, blanks, "&" and
\* a control character
MaxSanLen == 4
SanChars == {"a", " ", "\t", "&", "\\x01"}
SanTexts == UNION {[1..n -> SanChars] : n \in 0..MaxSanLen}

InitSanitize ==
    /\ pc = "sanitize_start"
    /\ fn_arg \in SanTexts
    /\ fn_out = NotRun
    /\ OthersIdle

Sanitize ==
    /\ pc = "sanitize_start"
    /\ fn_out' = sanitize(fn_arg)
    /\ pc' = "sanitize_done"
    /\ UNCHANGED <<fn_arg, pureOthers>>

NextSanitize == Sanitize
SpecSanitize == InitSanitize /\ [][NextSanitize]_vars

\* C25: the result of sanitize has no control character, no two
\* consecutive spaces or tabs, and no "&".
C25_SanitizedIsClean ==
    pc = "sanitize_done" =>
        /\ \A k \in 1..Len(fn_out) : fn_out[k] \notin SanitizerChars \cup {"&"}
        /\ \A k \in 1..(Len(fn_out) - 1) :
              ~(fn_out[k] \in {" ", "\t"} /\ fn_out[k + 1] \in {" ", "\t"})

-----------------------------------------------------------------------------
\* the passes of clean_document called on their own, on texts of words,
\* digits, hyphens, suffixes and line breaks
MaxPassTokens == 5
PassTokens == {<<"k">>, <<"-">>, <<"-", " ">>, <<"\n">>, <<"e", "d">>, <<"1">>}
PassTexts == {Concat(l) : l \in UNION {[1..n -> PassTokens] : n \in 0..MaxPassTokens}}

PassNames == {"fix_line_break_hyphenation", "fix_punctuation_spacing",
              "normalize_whitespace", "simple_tts_clean"}

ApplyPass(name, t) ==
    CASE name = "fix_line_break_hyphenation" -> fix_line_break_hyphenation(t)
      [] name = "fix_punctuation_spacing" -> fix_punctuation_spacing(t)
      [] name = "normalize_whitespace" -> normalize_whitespace(t)
      [] name = "simple_tts_clean" -> simple_tts_clean(t)

InitPasses ==
    /\ pc = "pass_start"
    /\ fn_arg \in PassTexts
    /\ fn_out = NotRun
    /\ OthersIdle

RunPass(name) ==
    /\ pc = "pass_start"
    /\ fn_out' = ApplyPass(name, fn_arg)
    /\ pc' = name
    /\ UNCHANGED <<fn_arg, pureOthers>>

NextPasses == \E name \in PassNames : RunPass(name)
SpecPasses == InitPasses /\ [][NextPasses]_vars

\* position k of t holds a hyphen that follows a letter, is followed at
\* once by a line break or a space, and has a letter after that whitespace
RepairSite(t, k) ==
    /\ t[k] \in HyphenChars
    /\ k > 1 /\ t[k - 1] \in Letter
    /\ k < Len(t) /\ t[k + 1] \in {"\n", " "}
    /\ SkipSpace(t, k + 1) <= Len(t) /\ t[SkipSpace(t, k + 1)] \in Letter

\* C26: fix_line_break_hyphenation changes a text only where a hyphen is
\* followed at once by a line break or a space and has letters on both
\* sides: a text with no such hyphen is returned unchanged.
C26_HyphenationFrame ==
    (/\ pc = "fix_line_break_hyphenation"
     /\ \A k \in 1..Len(fn_arg) : ~RepairSite(fn_arg, k))
    => fn_out = fn_arg

\* C27: every pass is idempotent: applied to its own result it returns
\* that result.
C27_PassesAreIdempotent ==
    pc \in PassNames => ApplyPass(pc, fn_out) = fn_out

-----------------------------------------------------------------------------
\* C28: smart_split_into_chunks never returns an empty or whitespace-only
\* chunk: every chunk holds at least one word, also when an over-long
\* sentence starts with a word longer than max_length.
C28_NoEmptyChunk ==
    pc = "chunk_done" => \A k \in 1..Len(chunks) : SplitWords(chunks[k]) # <<>>

-----------------------------------------------------------------------------
\* the sub-part's file is in the produced list
Produced(key) ==
    \E q \in 1..Len(part_paths) :
        part_paths[q] = part_path(key[1], key[2], Len(PartsOf(key[1])))

\* the sub-part is in the skipped list, with its text
Reported(key) ==
    \E k \in 1..Len(skipped_at) :
        skipped_at[k] = key /\ skipped[k] = PartsOf(key[1])[key[2]]

\* C29: when a run completes without raising, every sub-part of every
\* non-blank chunk is in the produced list or in the skipped list.
C29_EveryPartAccountedFor ==
    pc = "gen_done" => \A key \in AllParts : Produced(key) \/ Reported(key)

-----------------------------------------------------------------------------
\* C30: synth_chunk does not return audio synthesized under another voice
\* configuration: when a call has returned a file, a call that differs in
\* voice, rate or pitch does not return that same file without invoking
\* the capability.
C30_ReturnedAudioHasCallersVoice ==
    [][(/\ pc = "synth_idle" /\ sy # NoArgs /\ ret = mp3_path(sy)
        /\ pc' = "synth_idle" /\ ret' = ret /\ sy'.cfg # sy.cfg)
         => calls' > calls]_vars

====
